---- MODULE Spec2Model ----
(***************************************************************************)
(* Model of the 401(k) contribution calculator:                            *)
(*   - utils/calculations.js      (contribution resolver, projections)     *)
(*   - utils/graphCalculations.js (monthly / yearly trajectories)          *)
(*   - hooks/useContributionCalculator.js (the state of the form)          *)
(*   - components/ContributionGraph.jsx, RetirementProjection.jsx (the     *)
(*     series of the chart)                                                *)
(*   - hooks/useThrottledCallback.js (the slider's frame throttle)         *)
(*   - hooks/useEditableField.js (the inline editable fields)              *)
(*                                                                         *)
(* JavaScript numbers are modelled as exact rationals <<n, d>> (d > 0, in  *)
(* lowest terms) extended with the three IEEE-754 special values a         *)
(* division can produce: NaN = <<0,0>>, +Infinity = <<1,0>> and            *)
(* -Infinity = <<-1,0>>.  Rounding error of binary floating point is below *)
(* the resolution of the model; the sign of zero is not tracked (every     *)
(* zero the code divides by comes from a non-negative input).              *)
(***************************************************************************)
EXTENDS Integers, Sequences, FiniteSets, TLC

VARIABLES
  contributionType,    \* useState(initialContribution.type)
  contributionAmount,  \* useState(initialContribution.amount)
  age,                 \* useState(initialUser.age)
  salary,              \* useState(initialUser.salary)
  employerMatchRate,   \* useState(initialContribution.employerMatchRate)
  employerMatchCap,    \* useState(initialContribution.employerMatchCap)
  annualReturnRate,    \* useState(assumptions.averageAnnualReturn)
  baselineValues,      \* useState({salary, employerMatchRate, employerMatchCap})
  ytd,                 \* initialData.ytd, the payroll record handed to the hook
  typeChanges,         \* how many times handleTypeChange has converted the amount
  call,                \* the pure function under evaluation and its arguments
  ret,                 \* the value that call returned
  rafId,               \* useThrottledCallback: useRef(null), the pending frame
  callbackRef,         \* useThrottledCallback: useRef(callback)
  callback,            \* the callback the last render passed to the hook
  frames,              \* the browser's list of animation frame requests
  invocations,         \* arguments of the calls of the throttled function
  delivered,           \* the calls of the wrapped callback, in order
  isEditing,           \* useEditableField: useState(false)
  value,               \* useEditableField: useState(initialValue)
  initialValue,        \* useEditableField: the value the parent passes
  validationConfig,    \* useEditableField: the validation argument
  saved                \* useEditableField: the arguments of the calls of onSave

hookVars == <<contributionType, contributionAmount, age, salary,
              employerMatchRate, employerMatchCap, annualReturnRate,
              baselineValues, ytd, typeChanges>>
pureVars == <<call, ret>>
throttleVars == <<rafId, callbackRef, callback, frames, invocations, delivered>>
fieldVars == <<isEditing, value, initialValue, validationConfig, saved>>
uiVars == <<throttleVars, fieldVars>>
vars == <<contributionType, contributionAmount, age, salary,
          employerMatchRate, employerMatchCap, annualReturnRate,
          baselineValues, ytd, typeChanges, call, ret, uiVars>>

(***************************************************************************)
(* JavaScript number arithmetic                                            *)
(***************************************************************************)
Abs(i) == IF i < 0 THEN -i ELSE i

RECURSIVE Gcd(_, _)
Gcd(a, b) == IF b = 0 THEN a ELSE Gcd(b, a % b)

\* n/d with d > 0, in lowest terms
Norm(n, d) == LET g == Gcd(Abs(n), d) IN <<n \div g, d \div g>>

Num(i) == <<i, 1>>
Frac(n, d) == Norm(n, d)
NaN == <<0, 0>>
PosInf == <<1, 0>>
NegInf == <<-1, 0>>

IsNaN(x) == x = NaN
IsFinite(x) == x[2] # 0
Sign(x) == IF x[1] > 0 THEN 1 ELSE IF x[1] < 0 THEN -1 ELSE 0
IsZero(x) == IsFinite(x) /\ x[1] = 0

Neg(a) == <<-a[1], a[2]>>

\* a + b
Add(a, b) ==
  IF IsNaN(a) \/ IsNaN(b) THEN NaN
  ELSE IF ~IsFinite(a) THEN (IF ~IsFinite(b) /\ b # a THEN NaN ELSE a)
  ELSE IF ~IsFinite(b) THEN b
  ELSE LET g == Gcd(a[2], b[2])
       IN Norm(a[1] * (b[2] \div g) + b[1] * (a[2] \div g), (a[2] \div g) * b[2])

\* a - b
Sub(a, b) == Add(a, Neg(b))

\* a * b   (0 * Infinity is NaN)
Mul(a, b) ==
  IF IsNaN(a) \/ IsNaN(b) THEN NaN
  ELSE IF ~IsFinite(a) \/ ~IsFinite(b)
    THEN (IF Sign(a) * Sign(b) = 0 THEN NaN ELSE <<Sign(a) * Sign(b), 0>>)
  ELSE LET g1 == Gcd(Abs(a[1]), b[2])
           g2 == Gcd(Abs(b[1]), a[2])
       IN Norm((a[1] \div g1) * (b[1] \div g2), (a[2] \div g2) * (b[2] \div g1))

\* a / b   (x / 0 is +-Infinity, 0 / 0 and Infinity / Infinity are NaN)
Div(a, b) ==
  IF IsNaN(a) \/ IsNaN(b) THEN NaN
  ELSE IF IsZero(b)
    THEN (IF IsZero(a) THEN NaN ELSE <<Sign(a), 0>>)
  ELSE IF ~IsFinite(b)
    THEN (IF ~IsFinite(a) THEN NaN ELSE Num(0))
  ELSE IF ~IsFinite(a) THEN <<Sign(a) * Sign(b), 0>>
  ELSE Mul(a, <<Sign(b) * b[2], Abs(b[1])>>)

\* a < b   (false when either side is NaN)
Lt(a, b) ==
  /\ ~IsNaN(a)
  /\ ~IsNaN(b)
  /\ IF IsFinite(a) /\ IsFinite(b) THEN a[1] * b[2] < b[1] * a[2]
     ELSE IF a = b THEN FALSE
     ELSE a = NegInf \/ b = PosInf

\* a <= b   (false when either side is NaN)
Le(a, b) == ~IsNaN(a) /\ ~IsNaN(b) /\ ~Lt(b, a)

\* a === b on numbers   (NaN === NaN is false)
StrictEq(a, b) == ~IsNaN(a) /\ ~IsNaN(b) /\ a = b

\* Math.min(a, b)
MathMin(a, b) ==
  IF IsNaN(a) \/ IsNaN(b) THEN NaN ELSE IF Lt(b, a) THEN b ELSE a

\* Math.max(a, b)
MathMax(a, b) ==
  IF IsNaN(a) \/ IsNaN(b) THEN NaN ELSE IF Lt(a, b) THEN b ELSE a

\* Math.round(x): the nearest integer, halves towards +Infinity
MathRound(x) ==
  IF ~IsFinite(x) THEN x ELSE <<(2 * x[1] + x[2]) \div (2 * x[2]), 1>>

\* Math.pow(x, n) for an integer n >= 0   (Math.pow(NaN, 0) is 1)
RECURSIVE MathPow(_, _)
MathPow(x, n) == IF n = 0 THEN Num(1) ELSE Mul(x, MathPow(x, n - 1))

\* Number(x.toFixed(2)): x rounded to two decimals, halves away from zero
ToFixed2(x) ==
  IF ~IsFinite(x) THEN x
  ELSE LET m == MathRound(Mul(<<Abs(x[1]), x[2]>>, Num(100)))
       IN Norm(Sign(x) * m[1], 100)

(***************************************************************************)
(* utils/calculations.js                                                   *)
(***************************************************************************)
percentageToFixed(percentage, sal) == Div(Mul(sal, percentage), Num(100))

\* the ratio returned as a fraction, not scaled to a percentage
fixedToPercentageUnscaled(fixed, sal) ==
  IF IsZero(sal) THEN Num(0) ELSE Div(fixed, sal)

fixedToPercentage(fixed, sal) ==
  IF IsZero(sal) THEN Num(0) ELSE Mul(Div(fixed, sal), Num(100))

\* a semi-monthly pay schedule (24 periods) in place of the biweekly one
calculateAnnualContributionSemiMonthly(type, amount, sal) ==
  IF type = "percentage" THEN Div(Mul(sal, amount), Num(100))
  ELSE Mul(amount, Num(24))

calculateAnnualContribution(type, amount, sal) ==
  IF type = "percentage" THEN Div(Mul(sal, amount), Num(100))
  ELSE Mul(amount, Num(26))

\* the match without its cap
calculateEmployerMatchUncapped(employeeContribution, sal, matchRate, matchCap) ==
  Mul(employeeContribution, matchRate)

\* the match room left under the cap in place of the match
calculateEmployerMatchRemaining(employeeContribution, sal, matchRate, matchCap) ==
  LET matchedAmount == Mul(employeeContribution, matchRate)
      maxMatch == Div(Mul(sal, matchCap), Num(100))
  IN Sub(maxMatch, matchedAmount)

calculateEmployerMatch(employeeContribution, sal, matchRate, matchCap) ==
  LET matchedAmount == Mul(employeeContribution, matchRate)
      maxMatch == Div(Mul(sal, matchCap), Num(100))
  IN MathMin(matchedAmount, maxMatch)

calculateTotalAnnualContribution(type, amount, sal, matchRate, matchCap) ==
  LET employeeContribution == calculateAnnualContribution(type, amount, sal)
      employerContribution ==
        calculateEmployerMatch(employeeContribution, sal, matchRate, matchCap)
  IN [employee |-> employeeContribution,
      employer |-> employerContribution,
      total |-> Add(employeeContribution, employerContribution)]

calculateYTDContributions(type, amount, sal, matchRate, matchCap, monthsElapsed) ==
  LET annual == calculateTotalAnnualContribution(type, amount, sal, matchRate, matchCap)
      ratio == Div(Num(monthsElapsed), Num(12))
  IN [employee |-> Mul(annual.employee, ratio),
      employer |-> Mul(annual.employer, ratio),
      total |-> Mul(annual.total, ratio)]

calculateRetirementProjection(currentBalance, annualContribution, currentAge, retirementAge, rate) ==
  LET yearsToRetirement == retirementAge - currentAge
      monthlyRate == Div(rate, Num(12))
      monthlyContribution == Div(annualContribution, Num(12))
      totalMonths == yearsToRetirement * 12
      futureValueOfCurrentBalance ==
        Mul(currentBalance, MathPow(Add(Num(1), monthlyRate), totalMonths))
      futureValueOfContributions ==
        Mul(monthlyContribution,
            Div(Sub(MathPow(Add(Num(1), monthlyRate), totalMonths), Num(1)),
                monthlyRate))
      totalFutureValue == Add(futureValueOfCurrentBalance, futureValueOfContributions)
      totalContributions == Mul(annualContribution, Num(yearsToRetirement))
      totalGrowth == Sub(Sub(totalFutureValue, currentBalance), totalContributions)
  IN IF yearsToRetirement <= 0
       THEN [futureValue |-> currentBalance,
             totalContributions |-> Num(0),
             totalGrowth |-> Num(0),
             yearsToRetirement |-> 0]
       ELSE [futureValue |-> totalFutureValue,
             totalContributions |-> totalContributions,
             totalGrowth |-> totalGrowth,
             yearsToRetirement |-> yearsToRetirement]

calculateContributionImpact(currentBalance, currentAnnualContribution, newAnnualContribution, currentAge, retirementAge, rate) ==
  LET currentProjection ==
        calculateRetirementProjection(currentBalance, currentAnnualContribution,
                                      currentAge, retirementAge, rate)
      newProjection ==
        calculateRetirementProjection(currentBalance, newAnnualContribution,
                                      currentAge, retirementAge, rate)
      difference == Sub(newProjection.futureValue, currentProjection.futureValue)
      percentageChange ==
        IF Lt(Num(0), currentProjection.futureValue)
          THEN Mul(Div(difference, currentProjection.futureValue), Num(100))
          ELSE Num(0)
  IN [current |-> currentProjection,
      new |-> newProjection,
      difference |-> difference,
      percentageChange |-> percentageChange]

validateContribution(annualContribution, userAge, limits) ==
  LET applicableLimit == IF userAge >= limits.maxAge
                           THEN Add(limits.annual, limits.catchUp)
                           ELSE limits.annual
  IN [isValid |-> Le(annualContribution, applicableLimit),
      isNearLimit |-> Lt(Mul(applicableLimit, Frac(9, 10)), annualContribution),
      excessAmount |-> MathMax(Num(0), Sub(annualContribution, applicableLimit)),
      applicableLimit |-> applicableLimit]

(***************************************************************************)
(* utils/graphCalculations.js                                              *)
(***************************************************************************)
\* the point generateMonthlyProjection pushes for `month`: the constants
\* computed before the loop and one round of the loop
monthlyPoint(month, currentBalance, annualEmployeeContribution, annualEmployerContribution, monthsElapsed, rate, actualYTDContributions) ==
  LET monthlyRate == Div(rate, Num(12))
      futureMonthlyEmployee == Div(annualEmployeeContribution, Num(12))
      futureMonthlyEmployer == Div(annualEmployerContribution, Num(12))
      actualMonthlyEmployee ==
        Div(actualYTDContributions.employeeContributed, Num(monthsElapsed))
      actualMonthlyEmployer ==
        Div(actualYTDContributions.employerMatched, Num(monthsElapsed))
      actualMonthlyTotal == Add(actualMonthlyEmployee, actualMonthlyEmployer)
      growthFactor == MathPow(Add(Num(1), monthlyRate), monthsElapsed)
      contributionGrowth ==
        Mul(actualMonthlyTotal, Div(Sub(growthFactor, Num(1)), monthlyRate))
      startOfYearBalance == Div(Sub(currentBalance, contributionGrowth), growthFactor)
      monthsInFuture == month - monthsElapsed
      employeeContributed ==
        IF month <= monthsElapsed
          THEN Mul(actualMonthlyEmployee, Num(month))
          ELSE Add(Mul(actualMonthlyEmployee, Num(monthsElapsed)),
                   Mul(futureMonthlyEmployee, Num(monthsInFuture)))
      employerContributed ==
        IF month <= monthsElapsed
          THEN Mul(actualMonthlyEmployer, Num(month))
          ELSE Add(Mul(actualMonthlyEmployer, Num(monthsElapsed)),
                   Mul(futureMonthlyEmployer, Num(monthsInFuture)))
      balance ==
        IF month <= monthsElapsed
          THEN LET growth == MathPow(Add(Num(1), monthlyRate), month)
                   contributions ==
                     IF month > 0
                       THEN Mul(Add(actualMonthlyEmployee, actualMonthlyEmployer),
                                Div(Sub(growth, Num(1)), monthlyRate))
                       ELSE Num(0)
               IN Add(Mul(startOfYearBalance, growth), contributions)
          ELSE LET growth == MathPow(Add(Num(1), monthlyRate), monthsInFuture)
                   futureContributions ==
                     Mul(Add(futureMonthlyEmployee, futureMonthlyEmployer),
                         Div(Sub(growth, Num(1)), monthlyRate))
               IN Add(Mul(currentBalance, growth), futureContributions)
      totalContributed == Add(employeeContributed, employerContributed)
      growth == Sub(Sub(balance, startOfYearBalance), totalContributed)
  IN [month |-> month,
      label |-> <<"Month", month>>,
      employee |-> employeeContributed,
      employer |-> employerContributed,
      total |-> totalContributed,
      balance |-> MathRound(balance),
      growth |-> MathRound(growth),
      startingBalance |-> MathRound(startOfYearBalance),
      isProjected |-> month > monthsElapsed]

\* the defect the historical rule was written against: the year-to-date
\* figures recomputed from the contribution settings under edit
generateMonthlyProjectionRecomputed(currentBalance, annualEmployeeContribution, annualEmployerContribution, monthsElapsed, rate, monthsToProject, actualYTDContributions) ==
  LET ratio == Div(Num(monthsElapsed), Num(12))
      recomputed == [employeeContributed |-> Mul(annualEmployeeContribution, ratio),
                     employerMatched |-> Mul(annualEmployerContribution, ratio)]
  IN [i \in 1..(monthsToProject + 1) |->
        monthlyPoint(i - 1, currentBalance, annualEmployeeContribution,
                     annualEmployerContribution, monthsElapsed, rate, recomputed)]

\* the loop stopping one month short (month < monthsToProject)
generateMonthlyProjectionExclusive(currentBalance, annualEmployeeContribution, annualEmployerContribution, monthsElapsed, rate, monthsToProject, actualYTDContributions) ==
  [i \in 1..monthsToProject |->
     monthlyPoint(i - 1, currentBalance, annualEmployeeContribution,
                  annualEmployerContribution, monthsElapsed, rate,
                  actualYTDContributions)]

generateMonthlyProjection(currentBalance, annualEmployeeContribution, annualEmployerContribution, monthsElapsed, rate, monthsToProject, actualYTDContributions) ==
  [i \in 1..(monthsToProject + 1) |->
     monthlyPoint(i - 1, currentBalance, annualEmployeeContribution,
                  annualEmployerContribution, monthsElapsed, rate,
                  actualYTDContributions)]

\* The loops of generateYearlyProjection and generateMaxCatchupProjection
\* carry their variables in a record s; s.year counts the rounds done.

\* the year's contribution added before the growth is applied
RECURSIVE yearlyBalanceContributionFirstLoop(_, _, _, _)
yearlyBalanceContributionFirstLoop(s, annualContribution, rate, year) ==
  IF s.year >= year THEN s.balance
  ELSE yearlyBalanceContributionFirstLoop(
         [year |-> s.year + 1,
          balance |-> Mul(Add(s.balance, annualContribution), Add(Num(1), rate))],
         annualContribution, rate, year)

yearlyBalanceContributionFirst(currentBalance, annualContribution, rate, year) ==
  yearlyBalanceContributionFirstLoop([year |-> 0, balance |-> currentBalance],
                                     annualContribution, rate, year)

\* balance = balance * (1 + annualReturnRate) + annualContribution, until
\* `year` rounds are done
RECURSIVE yearlyBalanceLoop(_, _, _, _)
yearlyBalanceLoop(s, annualContribution, rate, year) ==
  IF s.year >= year THEN s.balance
  ELSE yearlyBalanceLoop(
         [year |-> s.year + 1,
          balance |-> Add(Mul(s.balance, Add(Num(1), rate)), annualContribution)],
         annualContribution, rate, year)

\* the variable balance of generateYearlyProjection after `year` rounds
yearlyBalance(currentBalance, annualContribution, rate, year) ==
  yearlyBalanceLoop([year |-> 0, balance |-> currentBalance],
                    annualContribution, rate, year)

\* cumulativeEmployee += ..., cumulativeEmployer += ...
RECURSIVE cumulativeLoop(_, _, _)
cumulativeLoop(s, annual, year) ==
  IF s.year >= year THEN s.sum
  ELSE cumulativeLoop([year |-> s.year + 1, sum |-> Add(s.sum, annual)],
                      annual, year)

cumulative(annual, year) == cumulativeLoop([year |-> 0, sum |-> Num(0)], annual, year)

\* the loop bounded by the distance between the two ages, whichever is larger
generateYearlyProjectionAbsoluteHorizon(currentBalance, currentAge, retirementAge, annualEmployeeContribution, annualEmployerContribution, rate) ==
  LET first == [year |-> 0,
                age |-> currentAge,
                label |-> <<"Age", currentAge>>,
                employee |-> Num(0),
                employer |-> Num(0),
                total |-> Num(0),
                balance |-> MathRound(currentBalance),
                growth |-> Num(0),
                startingBalance |-> MathRound(currentBalance),
                isProjected |-> FALSE]
      n == Abs(retirementAge - currentAge)
  IN [i \in 1..(n + 1) |-> IF i = 1 THEN first ELSE [first EXCEPT !.year = i - 1]]

generateYearlyProjection(currentBalance, currentAge, retirementAge, annualEmployeeContribution, annualEmployerContribution, rate) ==
  LET yearsToRetirement == retirementAge - currentAge
      startingBalance == currentBalance
      annualContribution == Add(annualEmployeeContribution, annualEmployerContribution)
      first == [year |-> 0,
                age |-> currentAge,
                label |-> <<"Age", currentAge>>,
                employee |-> Num(0),
                employer |-> Num(0),
                total |-> Num(0),
                balance |-> MathRound(currentBalance),
                growth |-> Num(0),
                startingBalance |-> MathRound(startingBalance),
                isProjected |-> FALSE]
      point(year) ==
        LET cumulativeEmployee == cumulative(annualEmployeeContribution, year)
            cumulativeEmployer == cumulative(annualEmployerContribution, year)
            balance == yearlyBalance(currentBalance, annualContribution, rate, year)
            totalContributions == Add(cumulativeEmployee, cumulativeEmployer)
            growth == Sub(Sub(balance, startingBalance), totalContributions)
        IN [year |-> year,
            age |-> currentAge + year,
            label |-> <<"Age", currentAge + year>>,
            employee |-> MathRound(cumulativeEmployee),
            employer |-> MathRound(cumulativeEmployer),
            total |-> MathRound(totalContributions),
            balance |-> MathRound(balance),
            growth |-> MathRound(growth),
            startingBalance |-> MathRound(startingBalance),
            isProjected |-> TRUE]
      n == IF yearsToRetirement > 0 THEN yearsToRetirement ELSE 0
  IN [i \in 1..(n + 1) |-> IF i = 1 THEN first ELSE point(i - 1)]

\* the loop running up to the last index (i < yearlyData.length)
RECURSIVE sampleAtIntervalsInclusive(_, _, _)
sampleAtIntervalsInclusive(yearlyData, step, i) ==
  IF i < Len(yearlyData)
    THEN <<yearlyData[i + 1]>> \o sampleAtIntervalsInclusive(yearlyData, step, i + step)
    ELSE <<>>

\* the loop of downsampleYearlyData from index i on (indices from 0, as in
\* the code; the array of the model starts at 1)
RECURSIVE sampleAtIntervals(_, _, _)
sampleAtIntervals(yearlyData, step, i) ==
  IF i < Len(yearlyData) - 1
    THEN <<yearlyData[i + 1]>> \o sampleAtIntervals(yearlyData, step, i + step)
    ELSE <<>>

\* Math.ceil(a / b) for integers a >= 0 and b >= 1
MathCeilOfQuotient(a, b) == (a + b - 1) \div b

\* the early return taken for an empty array only
downsampleYearlyDataAlwaysSampling(yearlyData, maxPoints) ==
  IF Len(yearlyData) = 0 THEN yearlyData
  ELSE LET step == MathCeilOfQuotient(Len(yearlyData), maxPoints)
       IN <<yearlyData[1]>>
            \o sampleAtIntervals(yearlyData, step, step)
            \o <<yearlyData[Len(yearlyData)]>>

\* maxPoints is a whole number >= 1
downsampleYearlyData(yearlyData, maxPoints) ==
  IF Len(yearlyData) <= maxPoints THEN yearlyData
  ELSE LET step == MathCeilOfQuotient(Len(yearlyData), maxPoints)
       IN <<yearlyData[1]>>
            \o sampleAtIntervals(yearlyData, step, step)
            \o <<yearlyData[Len(yearlyData)]>>

(***************************************************************************)
(* A JavaScript value that may be null or undefined is modelled as a       *)
(* sequence of at most one element: null is the empty one, a value v that  *)
(* is present is Some(v).                                                  *)
(***************************************************************************)
null == <<>>
Some(v) == <<v>>

\* data[index]?.balance   (indices from 1)
BalanceOf(data, index) ==
  IF index \in DOMAIN data THEN Some(data[index].balance) ELSE null

Falsy(x) == x = null \/ IsNaN(x[1]) \/ IsZero(x[1])

\* x || 0
OrZero(x) == IF Falsy(x) THEN Num(0) ELSE x[1]

\* x || null
OrNull(x) == IF Falsy(x) THEN null ELSE x

\* { ...point, ...extra }
Spread(point, extra) ==
  [f \in DOMAIN point \cup DOMAIN extra |->
     IF f \in DOMAIN extra THEN extra[f] ELSE point[f]]

\* a difference of zero counted as an increase
isIncreaseNonStrict(difference) == Le(Num(0), difference)

isIncrease(difference) == Lt(Num(0), difference)

comparisonData(originalData, newData) ==
  [index \in DOMAIN newData |->
     Spread(newData[index],
            [originalBalance |-> BalanceOf(originalData, index),
             delta |-> Sub(newData[index].balance,
                           OrZero(BalanceOf(originalData, index)))])]

\* the ratio computed whatever the original balance is
percentChangeUnguarded(difference, finalOriginal) ==
  Mul(Div(difference, finalOriginal), Num(100))

percentChange(difference, finalOriginal) ==
  IF Lt(Num(0), finalOriginal)
    THEN Mul(Div(difference, finalOriginal), Num(100))
    ELSE Num(0)

\* the comparison built whatever the two lengths are
calculateProjectionComparisonUnchecked(originalData, newData) ==
  IF originalData = null \/ newData = null THEN null
  ELSE LET finalOriginal == OrZero(BalanceOf(originalData[1], Len(originalData[1])))
           finalNew == OrZero(BalanceOf(newData[1], Len(newData[1])))
           difference == Sub(finalNew, finalOriginal)
       IN Some([data |-> comparisonData(originalData[1], newData[1]),
                difference |-> difference,
                isIncrease |-> isIncrease(difference),
                percentChange |-> percentChange(difference, finalOriginal)])

calculateProjectionComparison(originalData, newData) ==
  IF \/ originalData = null
     \/ newData = null
     \/ Len(originalData[1]) # Len(newData[1])
    THEN null
  ELSE LET finalOriginal == OrZero(BalanceOf(originalData[1], Len(originalData[1])))
           finalNew == OrZero(BalanceOf(newData[1], Len(newData[1])))
           difference == Sub(finalNew, finalOriginal)
       IN Some([data |-> comparisonData(originalData[1], newData[1]),
                difference |-> difference,
                isIncrease |-> isIncrease(difference),
                percentChange |-> percentChange(difference, finalOriginal)])

(***************************************************************************)
(* components/ContributionGraph.jsx                                        *)
(***************************************************************************)
\* data[index]?.catchupBalance, itself a number or null
CatchupBalanceOf(data, index) ==
  IF index \in DOMAIN data THEN data[index].catchupBalance ELSE null

chartData(viewMode, monthlyData, yearlyData, originalMonthlyData, originalYearlyData, catchupYearlyData, hasChangesProp) ==
  LET baseData == IF viewMode = "monthly" THEN monthlyData ELSE yearlyData
      originalData ==
        IF viewMode = "monthly" THEN originalMonthlyData ELSE originalYearlyData
  IN [index \in DOMAIN baseData |->
        Spread(baseData[index],
               [originalBalance |->
                  IF hasChangesProp /\ originalData # null
                    THEN OrNull(BalanceOf(originalData[1], index))
                    ELSE null,
                catchupBalance |->
                  IF viewMode = "yearly" /\ catchupYearlyData # null
                    THEN OrNull(CatchupBalanceOf(catchupYearlyData[1], index))
                    ELSE null])]

(***************************************************************************)
(* utils/graphCalculations.js: generateMaxCatchupProjection.  Its twelve   *)
(* arguments travel through the loop as one record p.                      *)
(***************************************************************************)
\* the employer contribution of a year at or after catchupAge
catchupEmployerContribution(annualLimit, catchupLimit, matchRate, matchCap, sal) ==
  LET maxEmployee == Add(annualLimit, catchupLimit)
      matchableAmount == MathMin(maxEmployee, Mul(sal, Div(matchCap, Num(100))))
  IN Mul(matchableAmount, matchRate)

\* one round of the loop of generateMaxCatchupProjection
RECURSIVE maxCatchupBalanceLoop(_, _, _)
maxCatchupBalanceLoop(s, p, year) ==
  IF s.year >= year THEN s.balance
  ELSE LET yearAge == p.currentAge + s.year + 1
           employeeContribution ==
             IF yearAge >= p.catchupAge
               THEN Add(p.annualLimit, p.catchupLimit)
               ELSE p.currentEmployeeContribution
           employerContribution ==
             IF yearAge >= p.catchupAge
               THEN catchupEmployerContribution(p.annualLimit, p.catchupLimit,
                                                p.employerMatchRate,
                                                p.employerMatchCap, p.salary)
               ELSE p.currentEmployerContribution
       IN maxCatchupBalanceLoop(
            [year |-> s.year + 1,
             balance |-> Add(Add(Mul(s.balance, Add(Num(1), p.annualReturnRate)),
                                 employeeContribution),
                             employerContribution)],
            p, year)

\* the variable balance of generateMaxCatchupProjection after `year` rounds
maxCatchupBalance(p, year) ==
  maxCatchupBalanceLoop([year |-> 0, balance |-> p.currentBalance], p, year)

maxCatchupPoint(p, year) ==
  [year |-> year,
   age |-> p.currentAge + year,
   catchupBalance |->
     IF p.currentAge + year >= p.catchupAge
       THEN Some(MathRound(maxCatchupBalance(p, year)))
       ELSE null]

\* a series that starts at catchupAge, without the points that carry null
generateMaxCatchupProjectionFromCatchupAge(currentBalance, currentAge, retirementAge, annualLimit, catchupLimit, catchupAge, matchRate, matchCap, sal, rate, currentEmployeeContribution, currentEmployerContribution) ==
  LET p == [currentBalance |-> currentBalance, currentAge |-> currentAge,
            annualLimit |-> annualLimit, catchupLimit |-> catchupLimit,
            catchupAge |-> catchupAge, employerMatchRate |-> matchRate,
            employerMatchCap |-> matchCap, salary |-> sal,
            annualReturnRate |-> rate,
            currentEmployeeContribution |-> currentEmployeeContribution,
            currentEmployerContribution |-> currentEmployerContribution]
      yearsToRetirement == retirementAge - currentAge
      n == IF yearsToRetirement > 0 THEN yearsToRetirement ELSE 0
      reached(point) == point.catchupBalance # null
  IN SelectSeq([i \in 1..(n + 1) |-> maxCatchupPoint(p, i - 1)], reached)

generateMaxCatchupProjection(currentBalance, currentAge, retirementAge, annualLimit, catchupLimit, catchupAge, matchRate, matchCap, sal, rate, currentEmployeeContribution, currentEmployerContribution) ==
  LET p == [currentBalance |-> currentBalance, currentAge |-> currentAge,
            annualLimit |-> annualLimit, catchupLimit |-> catchupLimit,
            catchupAge |-> catchupAge, employerMatchRate |-> matchRate,
            employerMatchCap |-> matchCap, salary |-> sal,
            annualReturnRate |-> rate,
            currentEmployeeContribution |-> currentEmployeeContribution,
            currentEmployerContribution |-> currentEmployerContribution]
      yearsToRetirement == retirementAge - currentAge
      n == IF yearsToRetirement > 0 THEN yearsToRetirement ELSE 0
  IN [i \in 1..(n + 1) |-> maxCatchupPoint(p, i - 1)]

(***************************************************************************)
(* components/RetirementProjection.jsx: the memos that feed the yearly     *)
(* chart.  The hook always hands over limits and the original              *)
(* contributions, so their absence is not a case.                          *)
(***************************************************************************)
\* the point budget the component passes to downsampleYearlyData
ChartMaxPoints == 50

projectedYearlyData(user, contributions, rate) ==
  downsampleYearlyData(
    generateYearlyProjection(user.currentBalance, user.age, user.retirementAge,
                             contributions.employee, contributions.employer, rate),
    ChartMaxPoints)

projectedOriginalYearlyData(hasChangesProp, originalContributions, user, rate) ==
  IF ~hasChangesProp THEN null
  ELSE Some(downsampleYearlyData(
              generateYearlyProjection(user.currentBalance, user.age,
                                       user.retirementAge,
                                       originalContributions.employee,
                                       originalContributions.employer, rate),
              ChartMaxPoints))

projectedCatchupYearlyData(user, limits, employerMatch, rate, contributions) ==
  IF user.retirementAge < limits.maxAge THEN null
  ELSE Some(downsampleYearlyData(
              generateMaxCatchupProjection(user.currentBalance, user.age,
                                           user.retirementAge, limits.annual,
                                           limits.catchUp, limits.maxAge,
                                           employerMatch.rate, employerMatch.cap,
                                           user.salary, rate,
                                           contributions.employee,
                                           contributions.employer),
              ChartMaxPoints))

(***************************************************************************)
(* utils/mockData.js: the data the application constructs the hook with    *)
(***************************************************************************)
mockUserData ==
  [user |-> [age |-> 24, salary |-> Num(65000), retirementAge |-> 65,
             currentBalance |-> Num(45000)],
   contribution |-> [type |-> "percentage", amount |-> Num(10),
                     employerMatchRate |-> Num(1), employerMatchCap |-> Num(5)],
   ytd |-> [monthsElapsed |-> 9, employeeContributed |-> Num(4875),
            employerMatched |-> Frac(4875, 2), totalContributed |-> Frac(14625, 2)],
   limits |-> [annual |-> Num(23000), catchUp |-> Num(7500), maxAge |-> 50],
   assumptions |-> [averageAnnualReturn |-> Frac(7, 100)]]

(***************************************************************************)
(* Bounds and input sets of the pure-function evaluations                  *)
(***************************************************************************)
MaxMonthsElapsed == 2
MaxMonthsToProject == 3
MaxYears == 3
MaxTypeChanges == 2

\* calculateEmployerMatch: the whole number line, negative inputs included
MatchContributionSet == {Num(-2600), Num(0), Num(2600), Num(6500)}
MatchSalarySet == {Num(-65000), Num(0), Num(65000)}
MatchRateSet == {Num(-1), Num(0), Frac(1, 2), Num(1)}
MatchCapSet == {Num(-5), Num(0), Num(5)}

\* calculateTotalAnnualContribution
TypeSet == {"percentage", "fixed", "other"}
AmountSet == {Num(0), Frac(15, 2), Num(10), Num(250)}
SalarySet == {Num(0), Num(1), Num(50000), Num(65000)}

\* percentageToFixed / fixedToPercentage
PercentSet == {Num(0), Frac(1, 100), Frac(15, 2), Num(10), Num(100)}
FixedSet == {Num(0), Num(250), Num(6500)}

\* projections: balances, annual contributions, payroll records, return rates
BalanceSet == {Num(0), Num(1000)}
AnnualEmployeeSet == {Num(0), Num(120), Num(240)}
AnnualEmployerSet == {Num(0), Num(60)}
YtdSet == {[employeeContributed |-> Num(0), employerMatched |-> Num(0)],
           [employeeContributed |-> Num(60), employerMatched |-> Num(30)]}
MonthlyRateSet == {Num(0), Num(6), Num(12)}
YearlyRateSet == {Num(0), Frac(7, 100), Frac(1, 2)}
CurrentAge == 30
RetirementRateSet == {Num(0), Num(12)}
RetirementBalanceSet == {Num(0), Num(100)}
RetirementAgeSet == {CurrentAge - 1, CurrentAge, CurrentAge + 1}

\* yearly projection of amounts that are not whole dollars
CentsBalanceSet == {Frac(2001, 2)}
CentsEmployeeSet == {Num(0), Frac(241, 2)}
CentsEmployerSet == {Num(0), Frac(121, 4)}
CentsRateSet == {Num(0), Frac(1, 2)}

\* trajectories handed to the comparison: every array of at most MaxPoints
\* points over a few balances, and null
MaxPoints == 2
ComparisonBalanceSet == {Num(-100), Num(0), Num(100), Num(250)}
SeriesOfLength(n) ==
  {[i \in 1..n |-> [year |-> i - 1, balance |-> f[i]]] :
     f \in [1..n -> ComparisonBalanceSet]}
SeriesSet == UNION {SeriesOfLength(n) : n \in 0..MaxPoints}
NullableSeriesSet == {null} \cup {Some(d) : d \in SeriesSet}

\* downsampleYearlyData: yearly projections of every length up to
\* MaxSeriesLength, and the empty array; point budgets from 1
MaxSeriesLength == 8
MaxBudget == 4
DownsampleSeries(n) ==
  IF n = 0 THEN <<>>
  ELSE generateYearlyProjection(Num(1000), CurrentAge, CurrentAge + n - 1,
                                Num(120), Num(60), Num(0))

\* calculateContributionImpact
ImpactBalanceSet == {Num(-100), Num(0), Num(100)}
ImpactCurrentSet == {Num(0), Num(120)}

\* the series the chart merges by index
ChartBalanceSet == {Num(0), Num(100)}
ChartSeriesOfLength(n) ==
  {[i \in 1..n |-> [year |-> i - 1, balance |-> f[i]]] :
     f \in [1..n -> ChartBalanceSet]}
ChartYearlySet == UNION {ChartSeriesOfLength(n) : n \in 1..MaxPoints}
ChartOriginalYearlySet ==
  {null} \cup {Some(d) : d \in UNION {ChartSeriesOfLength(n) : n \in 0..MaxPoints}}
ChartMonthlySet ==
  {<<[month |-> 0, balance |-> Num(100)]>>,
   <<[month |-> 0, balance |-> Num(100)], [month |-> 1, balance |-> Num(250)]>>}
ChartOriginalMonthlySet ==
  {null, Some(<<[month |-> 0, balance |-> Num(100)]>>)}
ChartCatchupSet ==
  {null,
   Some(<<[year |-> 0, age |-> 49, catchupBalance |-> null]>>),
   Some(<<[year |-> 0, age |-> 49, catchupBalance |-> null],
          [year |-> 1, age |-> 50, catchupBalance |-> Some(Num(250))]>>)}

\* generateMaxCatchupProjection: limits in tens of dollars; a salary whose
\* match cap is below the maximal contribution and one whose cap is above it
CatchupAgeSet == {CurrentAge - 1, CurrentAge + 1, CurrentAge + 2}
CatchupAnnualLimit == Num(230)
CatchupExtraLimit == Num(75)
CatchupSalarySet == {Num(5000), Num(10000)}
CatchupMatchRateSet == {Frac(1, 2), Num(1)}
CatchupMatchCapSet == {Num(5), Num(6)}
CatchupReturnRateSet == {Num(0), Frac(1, 2)}

\* RetirementProjection: horizons below and above the point budget
ProjectionHorizonSet == {-1, 0, 2, ChartMaxPoints - 1, ChartMaxPoints, ChartMaxPoints + 2}
ProjectionCatchupAgeSet == {CurrentAge - 1, CurrentAge + 1, CurrentAge + 2, CurrentAge + ChartMaxPoints + 1}

(***************************************************************************)
(* Evaluations of the pure functions (specification SpecCalc): the initial *)
(* state holds a function and its arguments, the action applies it.        *)
(***************************************************************************)
EmployerMatchCalls ==
  [fn : {"calculateEmployerMatch"}, done : {FALSE},
   employeeContribution : MatchContributionSet, salary : MatchSalarySet,
   employerMatchRate : MatchRateSet, employerMatchCap : MatchCapSet]

TotalAnnualContributionCalls ==
  [fn : {"calculateTotalAnnualContribution"}, done : {FALSE},
   type : TypeSet, amount : AmountSet, salary : SalarySet,
   employerMatchRate : MatchRateSet, employerMatchCap : MatchCapSet]

PercentageToFixedCalls ==
  [fn : {"percentageToFixed"}, done : {FALSE},
   percentage : PercentSet, salary : SalarySet]

FixedToPercentageCalls ==
  [fn : {"fixedToPercentage"}, done : {FALSE}, fixed : FixedSet,
   salary : SalarySet, converted : {FALSE}, percentage : {NaN}]

MonthlyProjectionCalls ==
  [fn : {"generateMonthlyProjection"}, done : {FALSE},
   currentBalance : BalanceSet,
   annualEmployeeContribution : AnnualEmployeeSet,
   annualEmployerContribution : AnnualEmployerSet,
   monthsElapsed : 0..MaxMonthsElapsed,
   annualReturnRate : MonthlyRateSet,
   monthsToProject : 1..MaxMonthsToProject,
   actualYTDContributions : YtdSet]

\* whole-dollar arguments at every rate, and arguments with cents (which
\* Math.round changes) at the rates with a small denominator
YearlyProjectionCalls ==
  [fn : {"generateYearlyProjection"}, done : {FALSE},
   currentBalance : BalanceSet,
   currentAge : {CurrentAge},
   retirementAge : (CurrentAge - 1)..(CurrentAge + MaxYears),
   annualEmployeeContribution : AnnualEmployeeSet,
   annualEmployerContribution : AnnualEmployerSet,
   annualReturnRate : YearlyRateSet]
  \cup
  [fn : {"generateYearlyProjection"}, done : {FALSE},
   currentBalance : CentsBalanceSet,
   currentAge : {CurrentAge},
   retirementAge : (CurrentAge - 1)..(CurrentAge + MaxYears),
   annualEmployeeContribution : CentsEmployeeSet,
   annualEmployerContribution : CentsEmployerSet,
   annualReturnRate : CentsRateSet]

RetirementProjectionCalls ==
  [fn : {"calculateRetirementProjection"}, done : {FALSE},
   currentBalance : RetirementBalanceSet,
   annualContribution : AnnualEmployeeSet,
   currentAge : {CurrentAge},
   retirementAge : RetirementAgeSet,
   annualReturnRate : RetirementRateSet]

ProjectionComparisonCalls ==
  [fn : {"calculateProjectionComparison"}, done : {FALSE},
   originalData : NullableSeriesSet, newData : NullableSeriesSet]

ContributionImpactCalls ==
  [fn : {"calculateContributionImpact"}, done : {FALSE},
   currentBalance : ImpactBalanceSet,
   currentAnnualContribution : ImpactCurrentSet,
   newAnnualContribution : AnnualEmployeeSet,
   currentAge : {CurrentAge},
   retirementAge : RetirementAgeSet,
   annualReturnRate : RetirementRateSet]

ChartDataCalls ==
  [fn : {"chartData"}, done : {FALSE},
   viewMode : {"monthly", "yearly"},
   monthlyData : ChartMonthlySet,
   yearlyData : ChartYearlySet,
   originalMonthlyData : ChartOriginalMonthlySet,
   originalYearlyData : ChartOriginalYearlySet,
   catchupYearlyData : ChartCatchupSet,
   hasChanges : BOOLEAN]

DownsampleCalls ==
  [fn : {"downsampleYearlyData"}, done : {FALSE},
   yearlyData : {DownsampleSeries(n) : n \in 0..MaxSeriesLength},
   maxPoints : 1..MaxBudget]

MaxCatchupProjectionCalls ==
  [fn : {"generateMaxCatchupProjection"}, done : {FALSE},
   currentBalance : BalanceSet,
   currentAge : {CurrentAge},
   retirementAge : (CurrentAge - 1)..(CurrentAge + MaxYears),
   annualLimit : {CatchupAnnualLimit},
   catchupLimit : {CatchupExtraLimit},
   catchupAge : CatchupAgeSet,
   employerMatchRate : CatchupMatchRateSet,
   employerMatchCap : CatchupMatchCapSet,
   salary : CatchupSalarySet,
   annualReturnRate : CatchupReturnRateSet,
   currentEmployeeContribution : {Num(120)},
   currentEmployerContribution : {Num(60)}]

RetirementProjectionRenders ==
  [fn : {"RetirementProjection"}, done : {FALSE},
   user : [currentBalance : {Num(1000)},
           age : {CurrentAge},
           retirementAge : {CurrentAge + h : h \in ProjectionHorizonSet},
           salary : {Num(5000)}],
   limits : [annual : {CatchupAnnualLimit}, catchUp : {CatchupExtraLimit},
             maxAge : ProjectionCatchupAgeSet],
   employerMatch : [rate : CatchupMatchRateSet, cap : {Num(5)}],
   annualReturnRate : {Num(0)},
   annualContributions : [employee : {Num(120), Num(240)}, employer : {Num(60)}],
   originalAnnualContributions : [employee : {Num(120)}, employer : {Num(60)}],
   hasChanges : BOOLEAN]

CallCalculateEmployerMatch ==
  /\ call.fn = "calculateEmployerMatch" /\ ~call.done
  /\ ret' = calculateEmployerMatch(call.employeeContribution, call.salary,
                                   call.employerMatchRate, call.employerMatchCap)
  /\ call' = [call EXCEPT !.done = TRUE]
  /\ UNCHANGED <<hookVars, uiVars>>

CallCalculateTotalAnnualContribution ==
  /\ call.fn = "calculateTotalAnnualContribution" /\ ~call.done
  /\ ret' = calculateTotalAnnualContribution(call.type, call.amount, call.salary,
                                             call.employerMatchRate,
                                             call.employerMatchCap)
  /\ call' = [call EXCEPT !.done = TRUE]
  /\ UNCHANGED <<hookVars, uiVars>>

CallPercentageToFixed ==
  /\ call.fn = "percentageToFixed" /\ ~call.done
  /\ ret' = percentageToFixed(call.percentage, call.salary)
  /\ call' = [call EXCEPT !.done = TRUE]
  /\ UNCHANGED <<hookVars, uiVars>>

CallFixedToPercentage ==
  /\ call.fn = "fixedToPercentage" /\ ~call.done
  /\ ret' = fixedToPercentage(call.fixed, call.salary)
  /\ call' = [call EXCEPT !.done = TRUE]
  /\ UNCHANGED <<hookVars, uiVars>>

\* the way back: the annual amount percentageToFixed returned, as a
\* per-paycheck amount (annualAmount / 26), annualised again (amount * 26),
\* becomes the argument of fixedToPercentage
ConvertBack ==
  /\ call.fn = "percentageToFixed" /\ call.done
  /\ LET amount == Div(ret, Num(26))
         annualAmount == Mul(amount, Num(26))
     IN call' = [fn |-> "fixedToPercentage", done |-> FALSE,
                 fixed |-> annualAmount, salary |-> call.salary,
                 converted |-> TRUE, percentage |-> call.percentage]
  /\ UNCHANGED ret
  /\ UNCHANGED <<hookVars, uiVars>>

CallGenerateMonthlyProjection ==
  /\ call.fn = "generateMonthlyProjection" /\ ~call.done
  /\ ret' = generateMonthlyProjection(call.currentBalance,
                                      call.annualEmployeeContribution,
                                      call.annualEmployerContribution,
                                      call.monthsElapsed, call.annualReturnRate,
                                      call.monthsToProject,
                                      call.actualYTDContributions)
  /\ call' = [call EXCEPT !.done = TRUE]
  /\ UNCHANGED <<hookVars, uiVars>>

CallGenerateYearlyProjection ==
  /\ call.fn = "generateYearlyProjection" /\ ~call.done
  /\ ret' = generateYearlyProjection(call.currentBalance, call.currentAge,
                                     call.retirementAge,
                                     call.annualEmployeeContribution,
                                     call.annualEmployerContribution,
                                     call.annualReturnRate)
  /\ call' = [call EXCEPT !.done = TRUE]
  /\ UNCHANGED <<hookVars, uiVars>>

CallCalculateRetirementProjection ==
  /\ call.fn = "calculateRetirementProjection" /\ ~call.done
  /\ ret' = calculateRetirementProjection(call.currentBalance,
                                          call.annualContribution, call.currentAge,
                                          call.retirementAge, call.annualReturnRate)
  /\ call' = [call EXCEPT !.done = TRUE]
  /\ UNCHANGED <<hookVars, uiVars>>

CallCalculateProjectionComparison ==
  /\ call.fn = "calculateProjectionComparison" /\ ~call.done
  /\ ret' = calculateProjectionComparison(call.originalData, call.newData)
  /\ call' = [call EXCEPT !.done = TRUE]
  /\ UNCHANGED <<hookVars, uiVars>>

CallCalculateContributionImpact ==
  /\ call.fn = "calculateContributionImpact" /\ ~call.done
  /\ ret' = calculateContributionImpact(call.currentBalance,
                                        call.currentAnnualContribution,
                                        call.newAnnualContribution,
                                        call.currentAge, call.retirementAge,
                                        call.annualReturnRate)
  /\ call' = [call EXCEPT !.done = TRUE]
  /\ UNCHANGED <<hookVars, uiVars>>

\* a render of ContributionGraph: the memo computes the rows of the chart
RenderChartData ==
  /\ call.fn = "chartData" /\ ~call.done
  /\ ret' = chartData(call.viewMode, call.monthlyData, call.yearlyData,
                      call.originalMonthlyData, call.originalYearlyData,
                      call.catchupYearlyData, call.hasChanges)
  /\ call' = [call EXCEPT !.done = TRUE]
  /\ UNCHANGED <<hookVars, uiVars>>

CallDownsampleYearlyData ==
  /\ call.fn = "downsampleYearlyData" /\ ~call.done
  /\ ret' = downsampleYearlyData(call.yearlyData, call.maxPoints)
  /\ call' = [call EXCEPT !.done = TRUE]
  /\ UNCHANGED <<hookVars, uiVars>>

CallGenerateMaxCatchupProjection ==
  /\ call.fn = "generateMaxCatchupProjection" /\ ~call.done
  /\ ret' = generateMaxCatchupProjection(call.currentBalance, call.currentAge,
                                         call.retirementAge, call.annualLimit,
                                         call.catchupLimit, call.catchupAge,
                                         call.employerMatchRate,
                                         call.employerMatchCap, call.salary,
                                         call.annualReturnRate,
                                         call.currentEmployeeContribution,
                                         call.currentEmployerContribution)
  /\ call' = [call EXCEPT !.done = TRUE]
  /\ UNCHANGED <<hookVars, uiVars>>

\* a render of RetirementProjection: the three memos of the yearly chart
RenderRetirementProjection ==
  /\ call.fn = "RetirementProjection" /\ ~call.done
  /\ ret' = [yearlyData |->
               projectedYearlyData(call.user, call.annualContributions,
                                   call.annualReturnRate),
             originalYearlyData |->
               projectedOriginalYearlyData(call.hasChanges,
                                           call.originalAnnualContributions,
                                           call.user, call.annualReturnRate),
             catchupYearlyData |->
               projectedCatchupYearlyData(call.user, call.limits,
                                          call.employerMatch,
                                          call.annualReturnRate,
                                          call.annualContributions)]
  /\ call' = [call EXCEPT !.done = TRUE]
  /\ UNCHANGED <<hookVars, uiVars>>

(***************************************************************************)
(* hooks/useThrottledCallback.js, as ContributionInput.jsx uses it for the *)
(* slider.  requestAnimationFrame hands out the handles 1, 2, ... in the   *)
(* order of the invocations; frames holds the requests the browser has     *)
(* neither run nor cancelled.                                              *)
(***************************************************************************)
MaxInvocations == 3
MaxSliderValue == 2
CallbackSet == {"first render", "second render", "third render"}
SliderValueSet == 1..MaxSliderValue

\* a frame callback that closes over the callback of the render that
\* created the throttled function
closedOverCallback == "first render"

\* callbackRef.current, read when the frame runs
currentCallback == callbackRef

\* a throttled function that schedules without cancelling
throttledWithoutCancel(args) ==
  /\ Len(invocations) < MaxInvocations
  /\ frames' = frames \cup {[id |-> Len(invocations) + 1, args |-> args]}
  /\ rafId' = Some(Len(invocations) + 1)
  /\ invocations' = Append(invocations, args)
  /\ UNCHANGED <<callbackRef, callback, delivered>>
  /\ UNCHANGED <<hookVars, pureVars, fieldVars>>

\* a throttled function that keeps the frame already pending and drops the
\* new arguments
throttledLeadingEdge(args) ==
  /\ Len(invocations) < MaxInvocations
  /\ IF rafId # null
       THEN UNCHANGED <<frames, rafId>>
       ELSE /\ frames' = frames \cup {[id |-> Len(invocations) + 1, args |-> args]}
            /\ rafId' = Some(Len(invocations) + 1)
  /\ invocations' = Append(invocations, args)
  /\ UNCHANGED <<callbackRef, callback, delivered>>
  /\ UNCHANGED <<hookVars, pureVars, fieldVars>>

\* a render of the component: useThrottledCallback(callback)
useThrottledCallback(newCallback) ==
  /\ callback' = newCallback
  /\ callbackRef' = newCallback
  /\ UNCHANGED <<rafId, frames, invocations, delivered>>
  /\ UNCHANGED <<hookVars, pureVars, fieldVars>>

\* the function the hook returns, called with args
throttled(args) ==
  /\ Len(invocations) < MaxInvocations
  /\ LET notCancelled ==
           IF rafId # null THEN {f \in frames : f.id # rafId[1]} ELSE frames
     IN frames' = notCancelled \cup {[id |-> Len(invocations) + 1, args |-> args]}
  /\ rafId' = Some(Len(invocations) + 1)
  /\ invocations' = Append(invocations, args)
  /\ UNCHANGED <<callbackRef, callback, delivered>>
  /\ UNCHANGED <<hookVars, pureVars, fieldVars>>

\* the browser runs the request f at an animation frame
animationFrame(f) ==
  /\ delivered' = Append(delivered, [callback |-> currentCallback,
                                     args |-> f.args, frame |-> f.id])
  /\ rafId' = null
  /\ frames' = frames \ {f}
  /\ UNCHANGED <<callbackRef, callback, invocations>>
  /\ UNCHANGED <<hookVars, pureVars, fieldVars>>

Render == \E c \in CallbackSet : useThrottledCallback(c)
Invoke == \E v \in SliderValueSet : throttled(v)
Frame == \E f \in frames : animationFrame(f)

ThrottleInit ==
  /\ rafId = null
  /\ callbackRef = "first render"
  /\ callback = "first render"
  /\ frames = {}
  /\ invocations = <<>>
  /\ delivered = <<>>

(***************************************************************************)
(* hooks/useEditableField.js, as EditableValue uses it: the input that     *)
(* calls handleChange, saveEdit and cancelEdit exists only in edit mode,   *)
(* and the parent passes the saved value back as initialValue.             *)
(***************************************************************************)
MaxSaves == 2

\* the validation objects of the age, employer match rate and employer match
\* cap fields, one without formatter, and one without lower bound
FieldMounts ==
  {[initialValue |-> Num(24),
    validation |-> [min |-> Some(Num(18)), max |-> Some(Num(100)),
                    type |-> "number", formatter |-> "Math.round"]],
   [initialValue |-> Num(1),
    validation |-> [min |-> Some(Num(0)), max |-> Some(Num(2)),
                    type |-> "decimal", formatter |-> "toFixed(2)"]],
   [initialValue |-> Num(5),
    validation |-> [min |-> Some(Num(0)), max |-> Some(Num(100)),
                    type |-> "decimal", formatter |-> "none"]],
   [initialValue |-> Num(5),
    validation |-> [min |-> null, max |-> Some(Num(100)),
                    type |-> "number", formatter |-> "none"]]}

\* what the user leaves in the input
InputTextSet == {"", "17.6", "1.234", "250", "-3", "1e999"}

\* parseFloat of the texts of InputTextSet
parseFloat(text) ==
  CASE text = "" -> NaN
    [] text = "17.6" -> Frac(88, 5)
    [] text = "1.234" -> Frac(617, 500)
    [] text = "250" -> Num(250)
    [] text = "-3" -> Num(-3)
    [] text = "1e999" -> PosInf

\* validation.formatter(finalValue), when a formatter is provided
applyFormatter(formatter, finalValue) ==
  CASE formatter = "Math.round" -> MathRound(finalValue)
    [] formatter = "toFixed(2)" -> ToFixed2(finalValue)
    [] formatter = "none" -> finalValue

\* a range check that only applies the lower bound
validateRangeLowerOnly(finalValue, validation) ==
  IF validation.min # null /\ Lt(finalValue, validation.min[1])
    THEN validation.min[1]
    ELSE finalValue

\* the two range checks of saveEdit, in order
validateRange(finalValue, validation) ==
  LET raised == IF validation.min # null /\ Lt(finalValue, validation.min[1])
                  THEN validation.min[1]
                  ELSE finalValue
  IN IF validation.max # null /\ Lt(validation.max[1], raised)
       THEN validation.max[1]
       ELSE raised

startEdit ==
  /\ ~isEditing
  /\ isEditing' = TRUE
  /\ UNCHANGED <<value, initialValue, validationConfig, saved>>
  /\ UNCHANGED <<hookVars, pureVars, throttleVars>>

cancelEdit ==
  /\ isEditing
  /\ value' = initialValue
  /\ isEditing' = FALSE
  /\ UNCHANGED <<initialValue, validationConfig, saved>>
  /\ UNCHANGED <<hookVars, pureVars, throttleVars>>

saveEdit ==
  /\ isEditing
  /\ Len(saved) < MaxSaves
  /\ LET finalValue ==
           validateRange(applyFormatter(validationConfig.formatter, value),
                         validationConfig)
     IN /\ value' = finalValue
        /\ isEditing' = FALSE
        /\ saved' = Append(saved, finalValue)
  /\ UNCHANGED <<initialValue, validationConfig>>
  /\ UNCHANGED <<hookVars, pureVars, throttleVars>>

\* validation.type is 'number' or 'decimal' in every field of the application
handleChange(text) ==
  /\ isEditing
  /\ value' = IF IsNaN(parseFloat(text)) \/ IsZero(parseFloat(text))
                THEN Num(0)
                ELSE parseFloat(text)
  /\ UNCHANGED <<isEditing, initialValue, validationConfig, saved>>
  /\ UNCHANGED <<hookVars, pureVars, throttleVars>>

\* the parent stores what onSave received and renders the field with it
useEditableField ==
  /\ saved # <<>>
  /\ initialValue # saved[Len(saved)]
  /\ initialValue' = saved[Len(saved)]
  /\ UNCHANGED <<isEditing, value, validationConfig, saved>>
  /\ UNCHANGED <<hookVars, pureVars, throttleVars>>

Change == \E text \in InputTextSet : handleChange(text)

FieldMount(mount) ==
  /\ isEditing = FALSE
  /\ value = mount.initialValue
  /\ initialValue = mount.initialValue
  /\ validationConfig = mount.validation
  /\ saved = <<>>

\* the age field, before any edit
FieldIdle ==
  FieldMount([initialValue |-> Num(24),
              validation |-> [min |-> Some(Num(18)), max |-> Some(Num(100)),
                              type |-> "number", formatter |-> "Math.round"]])

(***************************************************************************)
(* Initial state                                                           *)
(***************************************************************************)
HookInit ==
  /\ contributionType = mockUserData.contribution.type
  /\ contributionAmount = mockUserData.contribution.amount
  /\ age = mockUserData.user.age
  /\ salary = mockUserData.user.salary
  /\ employerMatchRate = mockUserData.contribution.employerMatchRate
  /\ employerMatchCap = mockUserData.contribution.employerMatchCap
  /\ annualReturnRate = mockUserData.assumptions.averageAnnualReturn
  /\ baselineValues = [salary |-> mockUserData.user.salary,
                       employerMatchRate |-> mockUserData.contribution.employerMatchRate,
                       employerMatchCap |-> mockUserData.contribution.employerMatchCap]
  /\ ytd = mockUserData.ytd
  /\ typeChanges = 0

\* no function is under evaluation
NoCall ==
  /\ call = [fn |-> "none", done |-> FALSE]
  /\ ret = NaN

\* no slider has been moved and no field is under edit
UiIdle == ThrottleInit /\ FieldIdle

CalcInit ==
  /\ HookInit
  /\ call \in EmployerMatchCalls \cup TotalAnnualContributionCalls
                \cup PercentageToFixedCalls \cup FixedToPercentageCalls
                \cup MonthlyProjectionCalls \cup YearlyProjectionCalls
                \cup RetirementProjectionCalls
                \cup ProjectionComparisonCalls \cup ContributionImpactCalls
                \cup ChartDataCalls \cup DownsampleCalls
                \cup MaxCatchupProjectionCalls \cup RetirementProjectionRenders
  /\ ret = NaN
  /\ UiIdle

CalcNext ==
  \/ CallCalculateEmployerMatch
  \/ CallCalculateTotalAnnualContribution
  \/ CallPercentageToFixed
  \/ CallFixedToPercentage
  \/ ConvertBack
  \/ CallGenerateMonthlyProjection
  \/ CallGenerateYearlyProjection
  \/ CallCalculateRetirementProjection
  \/ CallCalculateProjectionComparison
  \/ CallCalculateContributionImpact
  \/ RenderChartData
  \/ CallDownsampleYearlyData
  \/ CallGenerateMaxCatchupProjection
  \/ RenderRetirementProjection

SpecCalc == CalcInit /\ [][CalcNext]_vars

(***************************************************************************)
(* hooks/useContributionCalculator.js                                      *)
(***************************************************************************)
\* values the editors and the amount input hand to the handlers
ContributionTypes == {"percentage", "fixed"}
NewAmountSet == {Num(-5), Num(0), Num(10), Num(250)}
NewAgeSet == {24, 50}
NewSalarySet == {Num(50000), Num(65000)}
NewMatchRateSet == {Frac(1, 2), Num(1)}
NewMatchCapSet == {Num(5), Num(6)}
NewReturnRateSet == {Num(0), Frac(7, 100)}

originalContributionValues ==
  [type |-> mockUserData.contribution.type,
   amount |-> mockUserData.contribution.amount]

annualContributions ==
  calculateTotalAnnualContribution(contributionType, contributionAmount, salary,
                                   employerMatchRate, employerMatchCap)

originalAnnualContributions ==
  calculateTotalAnnualContribution(originalContributionValues.type,
                                   originalContributionValues.amount,
                                   baselineValues.salary,
                                   baselineValues.employerMatchRate,
                                   baselineValues.employerMatchCap)

\* the year-to-date figures of the first build of the hook, derived from
\* the settings under edit
ytdContributionsRecomputed ==
  calculateYTDContributions(contributionType, contributionAmount, salary,
                            employerMatchRate, employerMatchCap, ytd.monthsElapsed)

ytdContributions ==
  [employee |-> ytd.employeeContributed,
   employer |-> ytd.employerMatched,
   total |-> ytd.totalContributed]

validation ==
  validateContribution(annualContributions.employee, age, mockUserData.limits)

hasChanges ==
  \/ contributionType # originalContributionValues.type
  \/ contributionAmount # originalContributionValues.amount

\* the effect that copies salary and match into baselineValues has run
EffectsFlushed ==
  baselineValues = [salary |-> salary,
                    employerMatchRate |-> employerMatchRate,
                    employerMatchCap |-> employerMatchCap]

handleTypeChange(newType) ==
  /\ EffectsFlushed
  /\ typeChanges < MaxTypeChanges
  /\ typeChanges' = typeChanges + 1
  /\ newType # contributionType
  /\ LET newAmount ==
           IF newType = "fixed"
             THEN Div(percentageToFixed(contributionAmount, salary), Num(26))
             ELSE fixedToPercentage(Mul(contributionAmount, Num(26)), salary)
     IN /\ contributionType' = newType
        /\ contributionAmount' = ToFixed2(newAmount)
  /\ UNCHANGED <<age, salary, employerMatchRate, employerMatchCap,
                 annualReturnRate, baselineValues, ytd, call, ret, uiVars>>

handleAmountChange(newAmount) ==
  /\ EffectsFlushed
  /\ contributionAmount' = MathMax(Num(0), newAmount)
  /\ UNCHANGED <<contributionType, age, salary, employerMatchRate,
                 employerMatchCap, annualReturnRate, baselineValues, ytd, typeChanges, call, ret, uiVars>>

handleAgeChange(newAge) ==
  /\ EffectsFlushed
  /\ age' = newAge
  /\ UNCHANGED <<contributionType, contributionAmount, salary, employerMatchRate,
                 employerMatchCap, annualReturnRate, baselineValues, ytd, typeChanges, call, ret, uiVars>>

handleSalaryChange(newSalary) ==
  /\ EffectsFlushed
  /\ salary' = newSalary
  /\ UNCHANGED <<contributionType, contributionAmount, age, employerMatchRate,
                 employerMatchCap, annualReturnRate, baselineValues, ytd, typeChanges, call, ret, uiVars>>

handleEmployerMatchRateChange(newRate) ==
  /\ EffectsFlushed
  /\ employerMatchRate' = newRate
  /\ UNCHANGED <<contributionType, contributionAmount, age, salary,
                 employerMatchCap, annualReturnRate, baselineValues, ytd, typeChanges, call, ret, uiVars>>

handleEmployerMatchCapChange(newCap) ==
  /\ EffectsFlushed
  /\ employerMatchCap' = newCap
  /\ UNCHANGED <<contributionType, contributionAmount, age, salary,
                 employerMatchRate, annualReturnRate, baselineValues, ytd, typeChanges, call, ret, uiVars>>

handleAnnualReturnRateChange(newRate) ==
  /\ EffectsFlushed
  /\ annualReturnRate' = newRate
  /\ UNCHANGED <<contributionType, contributionAmount, age, salary,
                 employerMatchRate, employerMatchCap, baselineValues, ytd, typeChanges, call, ret, uiVars>>

\* the first build of reset, which went back to the whole initial record
resetEverything ==
  /\ EffectsFlushed
  /\ contributionType' = originalContributionValues.type
  /\ contributionAmount' = originalContributionValues.amount
  /\ age' = mockUserData.user.age
  /\ annualReturnRate' = mockUserData.assumptions.averageAnnualReturn
  /\ UNCHANGED <<salary, employerMatchRate, employerMatchCap,
                 baselineValues, ytd, typeChanges, call, ret, uiVars>>

reset ==
  /\ EffectsFlushed
  /\ contributionType' = originalContributionValues.type
  /\ contributionAmount' = originalContributionValues.amount
  /\ UNCHANGED <<age, salary, employerMatchRate, employerMatchCap,
                 annualReturnRate, baselineValues, ytd, typeChanges, call, ret, uiVars>>

\* useEffect(..., [salary, employerMatchRate, employerMatchCap]): runs after
\* the render that follows a change of one of the three
syncBaselineValues ==
  /\ ~EffectsFlushed
  /\ baselineValues' = [salary |-> salary,
                        employerMatchRate |-> employerMatchRate,
                        employerMatchCap |-> employerMatchCap]
  /\ UNCHANGED <<contributionType, contributionAmount, age, salary,
                 employerMatchRate, employerMatchCap, annualReturnRate, ytd,
                 typeChanges, call, ret, uiVars>>

TypeChange == \E t \in ContributionTypes : handleTypeChange(t)
AmountChange == \E a \in NewAmountSet : handleAmountChange(a)
AgeChange == \E a \in NewAgeSet : handleAgeChange(a)
SalaryChange == \E x \in NewSalarySet : handleSalaryChange(x)
EmployerMatchRateChange == \E r \in NewMatchRateSet : handleEmployerMatchRateChange(r)
EmployerMatchCapChange == \E c \in NewMatchCapSet : handleEmployerMatchCapChange(c)
AnnualReturnRateChange == \E r \in NewReturnRateSet : handleAnnualReturnRateChange(r)

Init == HookInit /\ NoCall /\ UiIdle

Next ==
  \/ TypeChange
  \/ AmountChange
  \/ AgeChange
  \/ SalaryChange
  \/ EmployerMatchRateChange
  \/ EmployerMatchCapChange
  \/ AnnualReturnRateChange
  \/ reset
  \/ syncBaselineValues

Spec == Init /\ [][Next]_vars

(***************************************************************************)
(* The slider's throttled callback (specifications SpecThrottle and, with  *)
(* the browser running every requested frame, SpecThrottleLive)            *)
(***************************************************************************)
ThrottleNext ==
  \/ Render
  \/ Invoke
  \/ Frame

SpecThrottle == Init /\ [][ThrottleNext]_vars

\* requestAnimationFrame: a request that stays pending is eventually run
SpecThrottleLive == Init /\ [][ThrottleNext]_vars /\ WF_vars(Frame)

(***************************************************************************)
(* An editable field (specification SpecField)                             *)
(***************************************************************************)
FieldInit ==
  /\ HookInit
  /\ NoCall
  /\ ThrottleInit
  /\ \E mount \in FieldMounts : FieldMount(mount)

FieldNext ==
  \/ startEdit
  \/ Change
  \/ saveEdit
  \/ cancelEdit
  \/ useEditableField

SpecField == FieldInit /\ [][FieldNext]_vars

(***************************************************************************)
(* Properties of the hook (checked under Spec)                             *)
(***************************************************************************)
\* C2 (year-to-date figures are frozen): after any sequence of handlers and
\* resets, ytdContributions.employee and ytdContributions.employer are the
\* supplied ytd.employeeContributed and ytd.employerMatched.
YtdFrozen ==
  /\ ytdContributions.employee = mockUserData.ytd.employeeContributed
  /\ ytdContributions.employer = mockUserData.ytd.employerMatched

\* every editable value differs from the constructed one, the figures stand
YtdFrozenWitness ==
  /\ contributionType # mockUserData.contribution.type
  /\ contributionAmount # mockUserData.contribution.amount
  /\ age # mockUserData.user.age
  /\ salary # mockUserData.user.salary
  /\ employerMatchRate # mockUserData.contribution.employerMatchRate
  /\ employerMatchCap # mockUserData.contribution.employerMatchCap
  /\ annualReturnRate # mockUserData.assumptions.averageAnnualReturn
  /\ ytdContributions.employee = Num(4875)
  /\ ytdContributions.employer = Frac(4875, 2)

\* C7 (switching the type preserves the value): a handleTypeChange to the
\* other type leaves the annual employee contribution, computed from the
\* type and amount, what it was before the switch.
TypeSwitchPreservesValue ==
  [][TypeChange =>
       calculateAnnualContribution(contributionType', contributionAmount', salary')
         = calculateAnnualContribution(contributionType, contributionAmount, salary)]_vars

(***************************************************************************)
(* Properties of the pure functions (checked under SpecCalc)               *)
(***************************************************************************)
MonthlyDone == call.fn = "generateMonthlyProjection" /\ call.done

\* the trajectory for the arguments of call with other contribution settings
OtherTrajectory(e, r) ==
  generateMonthlyProjection(call.currentBalance, e, r, call.monthsElapsed,
                            call.annualReturnRate, call.monthsToProject,
                            call.actualYTDContributions)

\* C1 (historical freeze): whatever the annual employee and employer
\* contributions passed to generateMonthlyProjection, with the other
\* arguments equal the trajectory has the same points, field by field, at
\* every index <= monthsElapsed; only later indices may differ.
HistoricalFreeze ==
  MonthlyDone =>
    \A e \in AnnualEmployeeSet, r \in AnnualEmployerSet :
      /\ DOMAIN OtherTrajectory(e, r) = DOMAIN ret
      /\ \A i \in DOMAIN ret :
           (i - 1 <= call.monthsElapsed) => OtherTrajectory(e, r)[i] = ret[i]

\* a trajectory with elapsed and future months whose future differs under
\* other settings while its elapsed months agree
HistoricalFreezeWitness ==
  /\ MonthlyDone
  /\ call.monthsElapsed >= 1
  /\ call.monthsElapsed < call.monthsToProject
  /\ IsFinite(ret[1].balance)
  /\ Lt(Num(0), call.actualYTDContributions.employeeContributed)
  /\ \E e \in AnnualEmployeeSet, r \in AnnualEmployerSet :
       /\ OtherTrajectory(e, r)[call.monthsElapsed + 2] # ret[call.monthsElapsed + 2]
       /\ OtherTrajectory(e, r)[call.monthsElapsed + 1] = ret[call.monthsElapsed + 1]

EmployerMatchDone == call.fn = "calculateEmployerMatch" /\ call.done
TotalAnnualDone == call.fn = "calculateTotalAnnualContribution" /\ call.done

\* salary * employerMatchCap / 100 of the call under evaluation
MatchCeiling == Div(Mul(call.salary, call.employerMatchCap), Num(100))

\* C3 (employer match cap): the employer amount calculateEmployerMatch and
\* calculateTotalAnnualContribution return never exceeds
\* salary * employerMatchCap / 100, for every employee contribution, salary,
\* match rate and match cap.
EmployerMatchNeverExceedsCap ==
  /\ EmployerMatchDone => Le(ret, MatchCeiling)
  /\ TotalAnnualDone => Le(ret.employer, MatchCeiling)

\* the scenario of the documentation: 6500 * 1.0 exceeds 5% of 65000
EmployerMatchCapWitness ==
  /\ EmployerMatchDone
  /\ call.employeeContribution = Num(6500)
  /\ call.salary = Num(65000)
  /\ call.employerMatchRate = Num(1)
  /\ call.employerMatchCap = Num(5)
  /\ ret = Num(3250)

\* C4 as stated (employer match floored at 0): for every input of
\* calculateEmployerMatch, negative ones included, the result is >= 0.
EmployerMatchFlooredAtZero ==
  EmployerMatchDone => Le(Num(0), ret)

\* C4 as amended: for a non-negative employee contribution, salary, match
\* rate and match cap the employer match is >= 0.
EmployerMatchNonNegativeOnDomain ==
  (/\ EmployerMatchDone
   /\ Le(Num(0), call.employeeContribution)
   /\ Le(Num(0), call.salary)
   /\ Le(Num(0), call.employerMatchRate)
   /\ Le(Num(0), call.employerMatchCap)) => Le(Num(0), ret)

\* a positive match below the cap, from non-negative arguments
EmployerMatchNonNegativeWitness ==
  /\ EmployerMatchDone
  /\ call.employeeContribution = Num(2600)
  /\ call.salary = Num(65000)
  /\ call.employerMatchRate = Frac(1, 2)
  /\ call.employerMatchCap = Num(5)
  /\ ret = Num(1300)

\* C5 (contribution resolver): calculateTotalAnnualContribution returns
\* employee = salary * amount / 100 for type 'percentage' and
\* employee = amount * 26 for every other type, and total = employee + employer.
ResolverFormula ==
  TotalAnnualDone =>
    /\ (call.type = "percentage") =>
         Mul(ret.employee, Num(100)) = Mul(call.salary, call.amount)
    /\ (call.type # "percentage") =>
         ret.employee = Mul(call.amount, Num(26))
    /\ Sub(ret.total, ret.employer) = ret.employee

\* a fixed per-paycheck contribution whose match is capped
ResolverFixedWitness ==
  /\ TotalAnnualDone
  /\ call.type = "fixed"
  /\ call.amount = Num(250)
  /\ call.salary = Num(65000)
  /\ call.employerMatchRate = Num(1)
  /\ call.employerMatchCap = Num(5)
  /\ ret = [employee |-> Num(6500), employer |-> Num(3250), total |-> Num(9750)]

FixedToPercentageDone == call.fn = "fixedToPercentage" /\ call.done

DefinedPoint(pt) ==
  /\ IsFinite(pt.employee)
  /\ IsFinite(pt.employer)
  /\ IsFinite(pt.total)
  /\ IsFinite(pt.balance)
  /\ IsFinite(pt.growth)

\* C8 (monthsElapsed = 0): generateMonthlyProjection called with
\* monthsElapsed = 0 takes the start-of-year balance to be currentBalance and
\* returns points whose employee, employer, total, balance and growth are
\* all defined numbers.
MonthsElapsedZeroGuarded ==
  (MonthlyDone /\ call.monthsElapsed = 0) =>
    \A i \in DOMAIN ret :
      /\ DefinedPoint(ret[i])
      /\ ret[i].startingBalance = MathRound(call.currentBalance)

RetirementDone == call.fn = "calculateRetirementProjection" /\ call.done

\* C9 (annualReturnRate = 0): generateMonthlyProjection and
\* calculateRetirementProjection return defined balances, the starting
\* balance plus the contributions made.
ZeroReturnRateDefined ==
  /\ (MonthlyDone /\ IsZero(call.annualReturnRate)) =>
       \A i \in DOMAIN ret : IsFinite(ret[i].balance)
  /\ (RetirementDone /\ IsZero(call.annualReturnRate)) =>
       /\ IsFinite(ret.futureValue)
       /\ ret.futureValue = Add(call.currentBalance, ret.totalContributions)

YearlyDone == call.fn = "generateYearlyProjection" /\ call.done

\* C10 (monotonic growth): for a return rate >= 0 and non-negative
\* contributions, the balance of each point of generateMonthlyProjection and
\* of generateYearlyProjection is >= the balance of the point before it.
MonotonicGrowth ==
  (MonthlyDone \/ YearlyDone) =>
    \A i \in DOMAIN ret :
      (i + 1 \in DOMAIN ret) => Le(ret[i].balance, ret[i + 1].balance)

\* what remains of C10 away from the two unguarded divisions
MonotonicGrowthAwayFromZero ==
  (\/ YearlyDone
   \/ MonthlyDone /\ call.monthsElapsed >= 1 /\ ~IsZero(call.annualReturnRate)) =>
    \A i \in DOMAIN ret :
      (i + 1 \in DOMAIN ret) => Le(ret[i].balance, ret[i + 1].balance)

\* C11 (shape of the monthly trajectory): generateMonthlyProjection returns
\* exactly monthsToProject + 1 points; the point at position i (from 0) has
\* month = i, and isProjected is true if and only if i > monthsElapsed.
MonthlyShape ==
  MonthlyDone =>
    /\ DOMAIN ret = 1..(call.monthsToProject + 1)
    /\ \A i \in DOMAIN ret :
         /\ ret[i].month = i - 1
         /\ ret[i].isProjected = (i - 1 > call.monthsElapsed)

\* one elapsed month of a three-month trajectory: four points, the first two
\* historical, the last two projected
MonthlyShapeWitness ==
  /\ MonthlyDone
  /\ call.monthsElapsed = 1
  /\ call.monthsToProject = 3
  /\ DOMAIN ret = 1..4
  /\ ~ret[1].isProjected /\ ~ret[2].isProjected
  /\ ret[3].isProjected /\ ret[4].isProjected
  /\ ret[4].month = 3

ZeroHorizon == call.retirementAge <= call.currentAge

\* C12 as stated (zero horizon): when retirementAge <= currentAge,
\* generateYearlyProjection returns exactly one point with year 0, balance
\* equal to currentBalance, zero employee, employer and total contributions
\* and zero growth, and calculateRetirementProjection returns
\* futureValue = currentBalance, totalContributions = 0, totalGrowth = 0 and
\* yearsToRetirement = 0.
ZeroHorizonExactBalance ==
  /\ (YearlyDone /\ ZeroHorizon) =>
       /\ DOMAIN ret = 1..1
       /\ ret[1].year = 0
       /\ ret[1].balance = call.currentBalance
       /\ ret[1].employee = Num(0)
       /\ ret[1].employer = Num(0)
       /\ ret[1].total = Num(0)
       /\ ret[1].growth = Num(0)
  /\ (RetirementDone /\ ZeroHorizon) =>
       ret = [futureValue |-> call.currentBalance, totalContributions |-> Num(0),
              totalGrowth |-> Num(0), yearsToRetirement |-> 0]

\* C12 as amended: the balance of the single point is
\* Math.round(currentBalance); the rest is as stated.
ZeroHorizonRoundedBalance ==
  /\ (YearlyDone /\ ZeroHorizon) =>
       /\ DOMAIN ret = 1..1
       /\ ret[1].year = 0
       /\ ret[1].balance = MathRound(call.currentBalance)
       /\ ret[1].employee = Num(0)
       /\ ret[1].employer = Num(0)
       /\ ret[1].total = Num(0)
       /\ ret[1].growth = Num(0)
  /\ (RetirementDone /\ ZeroHorizon) =>
       ret = [futureValue |-> call.currentBalance, totalContributions |-> Num(0),
              totalGrowth |-> Num(0), yearsToRetirement |-> 0]

\* a retirement age already passed, a balance of 1000.50: one point, 1001
ZeroHorizonWitness ==
  /\ YearlyDone
  /\ call.retirementAge < call.currentAge
  /\ call.currentBalance = Frac(2001, 2)
  /\ Lt(Num(0), call.annualEmployeeContribution)
  /\ DOMAIN ret = 1..1
  /\ ret[1].balance = Num(1001)

\* the solution of b(0) = b0, b(y) = b(y-1) * (1 + r) + c
CompoundedBalance(b0, c, r, y) ==
  LET factor == MathPow(Add(Num(1), r), y)
  IN IF IsZero(r) THEN Add(b0, Mul(c, Num(y)))
     ELSE Add(Mul(b0, factor), Mul(c, Div(Sub(factor, Num(1)), r)))

YearlyHorizon ==
  IF call.retirementAge - call.currentAge > 0
    THEN call.retirementAge - call.currentAge ELSE 0

GrowthOfEmitted(pt) ==
  Sub(Sub(pt.balance, pt.startingBalance), Add(pt.employee, pt.employer))

\* C14 (growth identity): every point emitted by generateMonthlyProjection
\* and generateYearlyProjection satisfies, on its emitted fields,
\* growth = balance - startingBalance - (employee + employer).
GrowthIdentity ==
  (MonthlyDone \/ YearlyDone) =>
    \A i \in DOMAIN ret : StrictEq(ret[i].growth, GrowthOfEmitted(ret[i]))

\* the same for the yearly trajectory alone, which divides by nothing: it
\* fails through the separate Math.round of each emitted field
GrowthIdentityYearly ==
  YearlyDone =>
    \A i \in DOMAIN ret : StrictEq(ret[i].growth, GrowthOfEmitted(ret[i]))

\* what remains of C14: where the fields of a point are numbers, the two
\* sides differ by the rounding of the fields, less than 2 in all
GrowthIdentityWithinRounding ==
  (MonthlyDone \/ YearlyDone) =>
    \A i \in DOMAIN ret :
      DefinedPoint(ret[i]) =>
        LET diff == Sub(ret[i].growth, GrowthOfEmitted(ret[i]))
        IN Lt(Num(-2), diff) /\ Lt(diff, Num(2))

\* the point of the trajectory at index monthsElapsed is the payroll record
\* and the current balance
AtGroundTruth ==
  LET pt == ret[call.monthsElapsed + 1]
  IN /\ StrictEq(pt.employee, call.actualYTDContributions.employeeContributed)
     /\ StrictEq(pt.employer, call.actualYTDContributions.employerMatched)
     /\ StrictEq(pt.balance, call.currentBalance)

\* C15 (ground truth at the current month): for monthsElapsed >= 1 the point
\* of generateMonthlyProjection at index monthsElapsed has employee and
\* employer equal to actualYTDContributions.employeeContributed and
\* employerMatched and balance equal to currentBalance, whatever the new
\* contribution settings are.
GroundTruthReproduced ==
  (/\ MonthlyDone
   /\ call.monthsElapsed >= 1
   /\ call.monthsElapsed <= call.monthsToProject) => AtGroundTruth

\* what remains of C15 away from the unguarded division by the monthly rate
GroundTruthReproducedAwayFromZero ==
  (/\ MonthlyDone
   /\ call.monthsElapsed >= 1
   /\ call.monthsElapsed <= call.monthsToProject
   /\ ~IsZero(call.annualReturnRate)) => AtGroundTruth

ComparisonDone == call.fn = "calculateProjectionComparison" /\ call.done
ChartDone == call.fn = "chartData" /\ call.done
ImpactDone == call.fn = "calculateContributionImpact" /\ call.done

\* two arrays were compared, of different lengths / of the same length
ComparedMismatched ==
  /\ ComparisonDone
  /\ call.originalData # null
  /\ call.newData # null
  /\ Len(call.originalData[1]) # Len(call.newData[1])

ComparedAligned ==
  /\ ComparisonDone
  /\ call.originalData # null
  /\ call.newData # null
  /\ Len(call.originalData[1]) = Len(call.newData[1])

\* the series the chart shows and the one it merges into it
ChartBase ==
  IF call.viewMode = "monthly" THEN call.monthlyData ELSE call.yearlyData
ChartOriginal ==
  IF call.viewMode = "monthly"
    THEN call.originalMonthlyData ELSE call.originalYearlyData

ChartMismatched ==
  /\ ChartDone
  /\ call.hasChanges
  /\ ChartOriginal # null
  /\ Len(ChartOriginal[1]) # Len(ChartBase)

\* C16 as stated (mismatched horizon): for trajectories of different
\* lengths calculateProjectionComparison signals the mismatch and returns no
\* comparison, and the chart's index-wise merge neither pads nor truncates:
\* it emits no row for which the original series has no point, and leaves
\* out no point of the original series.
MismatchedHorizonSignalled ==
  /\ ComparedMismatched => ret = null
  /\ ChartMismatched =>
       /\ \A index \in DOMAIN ret : index \in DOMAIN ChartOriginal[1]
       /\ \A index \in DOMAIN ChartOriginal[1] : index \in DOMAIN ret

\* C16 as amended: calculateProjectionComparison returns null; the chart's
\* merge emits one row per point of the current series, with
\* originalBalance null where the original series has no point (or a
\* balance of 0) and the original balance elsewhere, and drops the points
\* of the original series beyond the end of the current one.
MismatchedHorizonNullOrPadded ==
  /\ ComparedMismatched => ret = null
  /\ ChartMismatched =>
       /\ DOMAIN ret = DOMAIN ChartBase
       /\ \A index \in DOMAIN ret :
            /\ index > Len(ChartOriginal[1]) => ret[index].originalBalance = null
            /\ index <= Len(ChartOriginal[1]) =>
                 ret[index].originalBalance =
                   IF IsZero(ChartOriginal[1][index].balance)
                     THEN null ELSE Some(ChartOriginal[1][index].balance)

\* a current series of two points merged with an original of one: the
\* second row has no original balance
MismatchedHorizonWitness ==
  /\ ChartDone
  /\ call.hasChanges
  /\ call.viewMode = "yearly"
  /\ Len(call.yearlyData) = 2
  /\ call.originalYearlyData = Some(<<[year |-> 0, balance |-> Num(100)]>>)
  /\ Len(ret) = 2
  /\ ret[1].originalBalance = Some(Num(100))
  /\ ret[2].originalBalance = null

\* C17 (comparison): for two trajectories of the same length
\* calculateProjectionComparison returns for every index i
\* delta = newData[i].balance - originalData[i].balance, difference = the
\* delta of the last index, and isIncrease true if and only if
\* difference > 0.
ComparisonDeltas ==
  ComparedAligned =>
    /\ ret # null
    /\ DOMAIN ret[1].data = DOMAIN call.newData[1]
    /\ \A i \in DOMAIN ret[1].data :
         ret[1].data[i].delta =
           Sub(call.newData[1][i].balance, call.originalData[1][i].balance)
    /\ Len(ret[1].data) >= 1 =>
         ret[1].difference = ret[1].data[Len(ret[1].data)].delta
    /\ ret[1].isIncrease = Lt(Num(0), ret[1].difference)

\* trajectories that differ on the way and end on the same balance: no
\* increase
ComparisonDeltasWitness ==
  /\ ComparedAligned
  /\ Len(call.newData[1]) = 2
  /\ call.originalData[1][1].balance = Num(100)
  /\ call.newData[1][1].balance = Num(250)
  /\ call.originalData[1][2].balance = Num(250)
  /\ call.newData[1][2].balance = Num(250)
  /\ ret[1].data[1].delta = Num(150)
  /\ ret[1].difference = Num(0)
  /\ ~ret[1].isIncrease

\* difference / original * 100 unless the original is 0
PercentOfNonZero(difference, original) ==
  IF IsZero(original) THEN Num(0)
  ELSE Mul(Div(difference, original), Num(100))

\* difference / original * 100 for an original > 0, else 0
PercentOfPositive(difference, original) ==
  IF Lt(Num(0), original) THEN Mul(Div(difference, original), Num(100))
  ELSE Num(0)

\* the balance of the last point of the original trajectory
FinalOriginalBalance ==
  call.originalData[1][Len(call.originalData[1])].balance

\* C18 as stated (percent change): percentChange of
\* calculateProjectionComparison and percentageChange of
\* calculateContributionImpact are difference / original final balance * 100
\* whenever the original final balance is not 0, a negative one included,
\* and 0 when it is 0.
PercentChangeUnlessZero ==
  /\ (ComparedAligned /\ Len(call.originalData[1]) >= 1) =>
       ret[1].percentChange =
         PercentOfNonZero(ret[1].difference, FinalOriginalBalance)
  /\ ImpactDone =>
       ret.percentageChange =
         PercentOfNonZero(ret.difference, ret.current.futureValue)

\* C18 as amended: the percent change is difference / original final
\* balance * 100 when the original final balance is > 0, and 0 otherwise
\* (for an original final balance of 0, below 0, or not a number).
PercentChangeWhenPositive ==
  /\ (ComparedAligned /\ Len(call.originalData[1]) >= 1) =>
       ret[1].percentChange =
         PercentOfPositive(ret[1].difference, FinalOriginalBalance)
  /\ ImpactDone =>
       ret.percentageChange =
         PercentOfPositive(ret.difference, ret.current.futureValue)

\* from -100 to 100: a difference of 200 and a percent change of 0
PercentChangeWitness ==
  /\ ComparedAligned
  /\ Len(call.originalData[1]) = 1
  /\ FinalOriginalBalance = Num(-100)
  /\ call.newData[1][1].balance = Num(100)
  /\ ret[1].difference = Num(200)
  /\ ret[1].percentChange = Num(0)

DownsampleDone == call.fn = "downsampleYearlyData" /\ call.done

\* C19 (downsample identity): whenever yearlyData.length <= maxPoints,
\* downsampleYearlyData returns its input unchanged, the same points in the
\* same order.
DownsampleIdentity ==
  (DownsampleDone /\ Len(call.yearlyData) <= call.maxPoints) =>
    ret = call.yearlyData

\* a series exactly as long as the budget
DownsampleIdentityWitness ==
  /\ DownsampleDone
  /\ call.maxPoints = 3
  /\ Len(call.yearlyData) = 3
  /\ Len(ret) = 3
  /\ ret[2].year = 1
  /\ ret[3].balance = Num(1360)

\* the step of the call under evaluation and the indices (from 0) the
\* sampling keeps between the first and the last
DownsampleStep == MathCeilOfQuotient(Len(call.yearlyData), call.maxPoints)
KeptBetween ==
  {i \in 1..(Len(call.yearlyData) - 2) : i % DownsampleStep = 0}

\* C20 (downsample bounds): when yearlyData.length > maxPoints, the output
\* starts with input[0], ends with input[length-1], and between them holds
\* exactly the input points at the multiples of step = ceil(length /
\* maxPoints) strictly between 0 and length-1, in ascending order; no input
\* point appears twice.
DownsampleKeepsEnds ==
  (DownsampleDone /\ Len(call.yearlyData) > call.maxPoints) =>
    /\ Len(ret) = Cardinality(KeptBetween) + 2
    /\ ret[1] = call.yearlyData[1]
    /\ ret[Len(ret)] = call.yearlyData[Len(call.yearlyData)]
    /\ \A k \in 2..(Len(ret) - 1) :
         /\ (k - 1) * DownsampleStep \in KeptBetween
         /\ ret[k] = call.yearlyData[(k - 1) * DownsampleStep + 1]
    /\ \A j, k \in DOMAIN ret : j < k => ret[j].year < ret[k].year

\* seven points under a budget of three: step 3 keeps indices 0, 3 and 6,
\* the last index being a multiple of the step
DownsampleKeepsEndsWitness ==
  /\ DownsampleDone
  /\ call.maxPoints = 3
  /\ Len(call.yearlyData) = 7
  /\ Len(ret) = 3
  /\ ret[1].year = 0
  /\ ret[2].year = 3
  /\ ret[3].year = 6

\* C21 (downsample cap): for every input length and every maxPoints >= 1
\* the output of downsampleYearlyData has at most maxPoints points.
DownsampleCapped ==
  DownsampleDone => Len(ret) <= call.maxPoints

\* what remains of C21: the two end points and the sampled ones never come
\* to more than one point over the budget
DownsampleCappedPlusOne ==
  DownsampleDone => Len(ret) <= call.maxPoints + 1

(***************************************************************************)
(* Properties of the hook, continued (checked under Spec)                  *)
(***************************************************************************)
\* C22 (the limit is enforced): in every state reachable through the
\* handlers and reset, the annual employee contribution is at most the
\* applicable limit (annual, plus catchUp from limits.maxAge on), that is
\* validation.isValid is true.
LimitEnforced ==
  /\ validation.isValid
  /\ Le(annualContributions.employee, validation.applicableLimit)

\* what remains of C22: validation reports the excess it does not prevent
LimitReported ==
  /\ validation.applicableLimit =
       IF age >= mockUserData.limits.maxAge
         THEN Add(mockUserData.limits.annual, mockUserData.limits.catchUp)
         ELSE mockUserData.limits.annual
  /\ validation.isValid <=>
       Le(annualContributions.employee, validation.applicableLimit)

\* an edit of age, salary, employer match or return rate
OtherEdit ==
  \/ AgeChange
  \/ SalaryChange
  \/ EmployerMatchRateChange
  \/ EmployerMatchCapChange
  \/ AnnualReturnRateChange
  \/ syncBaselineValues

\* C23 (reset and hasChanges): reset puts contributionType and
\* contributionAmount back to the original pair, after which hasChanges is
\* false, and leaves age, salary, match rate, match cap and return rate as
\* they were; an edit of age, salary, match or return rate alone never
\* changes hasChanges.
ResetRestoresPair ==
  [][/\ reset =>
          /\ contributionType' = originalContributionValues.type
          /\ contributionAmount' = originalContributionValues.amount
          /\ ~hasChanges'
          /\ UNCHANGED <<age, salary, employerMatchRate, employerMatchCap,
                         annualReturnRate>>
     /\ OtherEdit => (hasChanges' <=> hasChanges)]_vars

\* after one conversion of the amount only reset brings the type back, and
\* here it did so with age, salary and return rate edited
ResetRestoresPairWitness ==
  /\ typeChanges = 1
  /\ ~hasChanges
  /\ age # mockUserData.user.age
  /\ salary # mockUserData.user.salary
  /\ annualReturnRate # mockUserData.assumptions.averageAnnualReturn

\* C26 (the comparison baseline is current): in every state a render can
\* show, the one between an edit of salary or employer match and the effect
\* that copies them into baselineValues included, originalAnnualContributions
\* is calculateTotalAnnualContribution of the original type and amount with
\* the current salary, match rate and match cap; hence while hasChanges is
\* false it equals annualContributions.
BaselineCurrent ==
  /\ originalAnnualContributions =
       calculateTotalAnnualContribution(originalContributionValues.type,
                                        originalContributionValues.amount,
                                        salary, employerMatchRate,
                                        employerMatchCap)
  /\ ~hasChanges => originalAnnualContributions = annualContributions

\* what remains of C26: the baseline is current once the effect has run
BaselineCurrentOnceFlushed ==
  EffectsFlushed =>
    /\ originalAnnualContributions =
         calculateTotalAnnualContribution(originalContributionValues.type,
                                          originalContributionValues.amount,
                                          salary, employerMatchRate,
                                          employerMatchCap)
    /\ ~hasChanges => originalAnnualContributions = annualContributions

(***************************************************************************)
(* Properties of the catch-up projection and of the yearly chart series    *)
(* (checked under SpecCalc)                                                *)
(***************************************************************************)
CatchupDone == call.fn = "generateMaxCatchupProjection" /\ call.done
ProjectionDone == call.fn = "RetirementProjection" /\ call.done

\* the first projected year is a catch-up year
CatchupFirstYear ==
  /\ CatchupDone
  /\ call.retirementAge > call.currentAge
  /\ call.currentAge + 1 >= call.catchupAge

\* the balance of year 1 when the employer contribution of a catch-up year is m
CatchupFirstBalance(m) ==
  Some(MathRound(Add(Add(Mul(call.currentBalance, Add(Num(1), call.annualReturnRate)),
                         Add(call.annualLimit, call.catchupLimit)),
                     m)))

\* C28 (employer match of the catch-up years): for every match rate and cap,
\* the employer contribution generateMaxCatchupProjection uses for a year at
\* or after catchupAge is min((annualLimit + catchupLimit) * employerMatchRate,
\* salary * employerMatchCap / 100), what calculateEmployerMatch returns for
\* the maximal employee contribution.
CatchupMatchAgrees ==
  CatchupFirstYear =>
    ret[2].catchupBalance =
      CatchupFirstBalance(
        calculateEmployerMatch(Add(call.annualLimit, call.catchupLimit),
                               call.salary, call.employerMatchRate,
                               call.employerMatchCap))

\* what remains of C28: the two agree when the employer matches in full, and
\* otherwise the projection matches the capped amount at the match rate
CatchupMatchAgreesAtFullMatch ==
  CatchupFirstYear =>
    /\ ret[2].catchupBalance =
         CatchupFirstBalance(
           Mul(MathMin(Add(call.annualLimit, call.catchupLimit),
                       Div(Mul(call.salary, call.employerMatchCap), Num(100))),
               call.employerMatchRate))
    /\ call.employerMatchRate = Num(1) =>
         ret[2].catchupBalance =
           CatchupFirstBalance(
             calculateEmployerMatch(Add(call.annualLimit, call.catchupLimit),
                                    call.salary, call.employerMatchRate,
                                    call.employerMatchCap))

\* two series have the same length and the same year at every index
SameYears(a, b) ==
  /\ Len(a) = Len(b)
  /\ \A i \in 1..Len(a) : a[i].year = b[i].year

\* the arguments generateMaxCatchupProjection receives from the render
RenderedCatchupArguments ==
  [currentBalance |-> call.user.currentBalance, currentAge |-> call.user.age,
   annualLimit |-> call.limits.annual, catchupLimit |-> call.limits.catchUp,
   catchupAge |-> call.limits.maxAge,
   employerMatchRate |-> call.employerMatch.rate,
   employerMatchCap |-> call.employerMatch.cap, salary |-> call.user.salary,
   annualReturnRate |-> call.annualReturnRate,
   currentEmployeeContribution |-> call.annualContributions.employee,
   currentEmployerContribution |-> call.annualContributions.employer]

\* C29 (series merged by index stay aligned): for the same age and
\* retirementAge the downsampled current, original and catch-up yearly
\* series have the same length and the same year at every index; a point of
\* the catch-up series has a null catchupBalance exactly when its age is
\* below catchupAge, and through the years before catchupAge the balance the
\* catch-up projection carries is the balance of the regular yearly
\* projection.
SeriesAligned ==
  /\ ProjectionDone =>
       /\ ret.originalYearlyData # null =>
            SameYears(ret.yearlyData, ret.originalYearlyData[1])
       /\ ret.catchupYearlyData # null =>
            /\ SameYears(ret.yearlyData, ret.catchupYearlyData[1])
            /\ \A i \in 1..Len(ret.catchupYearlyData[1]) :
                 LET point == ret.catchupYearlyData[1][i]
                 IN /\ point.age = ret.yearlyData[i].age
                    /\ point.catchupBalance = null <=> point.age < call.limits.maxAge
                    /\ point.age < call.limits.maxAge =>
                         MathRound(maxCatchupBalance(RenderedCatchupArguments,
                                                     point.year))
                           = ret.yearlyData[i].balance
  /\ CatchupDone =>
       \A i \in 1..Len(ret) :
         /\ ret[i].catchupBalance = null <=> ret[i].age < call.catchupAge
         /\ ret[i].age < call.catchupAge =>
              maxCatchupBalance(call, ret[i].year)
                = yearlyBalance(call.currentBalance,
                                Add(call.currentEmployeeContribution,
                                    call.currentEmployerContribution),
                                call.annualReturnRate, ret[i].year)

\* a horizon over the point budget, changed contributions, and a catch-up
\* age reached after the first year: the three series are sampled and the
\* catch-up one has null and numeric points
SeriesAlignedWitness ==
  /\ ProjectionDone
  /\ call.user.retirementAge - call.user.age + 1 > ChartMaxPoints
  /\ Len(ret.yearlyData) < call.user.retirementAge - call.user.age + 1
  /\ ret.originalYearlyData # null
  /\ ret.catchupYearlyData # null
  /\ \E i \in 2..Len(ret.catchupYearlyData[1]) :
       /\ ret.catchupYearlyData[1][i].catchupBalance = null
       /\ ret.catchupYearlyData[1][i].year > 0
  /\ \E i \in 1..Len(ret.catchupYearlyData[1]) :
       ret.catchupYearlyData[1][i].catchupBalance # null

(***************************************************************************)
(* Properties of the throttled callback (checked under SpecThrottle and    *)
(* SpecThrottleLive)                                                       *)
(***************************************************************************)
\* C24 (one pending frame): at most one animation frame is pending, and it
\* is the one rafId holds, because each invocation cancels the frame that
\* was scheduled before it schedules a new one; the wrapped callback runs
\* at most once per frame and never more often than the throttled function
\* was invoked.
OneFramePending ==
  /\ Cardinality(frames) <= 1
  /\ rafId = null <=> frames = {}
  /\ \A f \in frames : rafId = Some(f.id) /\ f.id = Len(invocations)
  /\ \A i, j \in DOMAIN delivered :
       delivered[i].frame = delivered[j].frame => i = j
  /\ Len(delivered) <= Len(invocations)

\* the third invocation cancelled nothing or the frame before it, the frame
\* of the second invocation has run, and the frame of the third is pending
OneFramePendingWitness ==
  /\ Len(invocations) = 3
  /\ \E i \in DOMAIN delivered : delivered[i].frame = 2
  /\ rafId = Some(3)

\* C25 (the last call wins, without stale closures): when a frame runs, the
\* callback called is the one the most recent render passed to the hook, and
\* its arguments are those of the most recent invocation; the arguments of
\* an invocation that was cancelled are never delivered.
LastCallWins ==
  [][delivered' # delivered =>
       /\ invocations # <<>>
       /\ delivered' = Append(delivered,
                              [callback |-> callback,
                               args |-> invocations[Len(invocations)],
                               frame |-> Len(invocations)])]_vars

\* a frame ran after a cancelled invocation and after a render that passed
\* another callback: the later arguments went to the later callback
LastCallWinsWitness ==
  /\ Len(invocations) >= 2
  /\ delivered # <<>>
  /\ delivered[1].frame = 2
  /\ delivered[1].args = invocations[2]
  /\ invocations[1] # invocations[2]
  /\ delivered[1].callback # "first render"

\* how often the arguments of the last invocation were delivered
LastDeliveries ==
  Cardinality({i \in DOMAIN delivered : delivered[i].frame = Len(invocations)})

\* the last invocation has been served and nothing is pending
Settled ==
  /\ rafId = null
  /\ frames = {}
  /\ invocations # <<>> =>
       /\ delivered # <<>>
       /\ delivered[Len(delivered)].args = invocations[Len(invocations)]
       /\ delivered[Len(delivered)].frame = Len(invocations)
       /\ LastDeliveries = 1

\* C30 (the last invocation is served): when the throttled function is
\* invoked finitely many times and frames keep firing, the wrapped callback
\* is eventually called with the arguments of the last invocation, exactly
\* once after that invocation, and from then on no frame is pending (rafId
\* is null).
LastInvocationServed == <>[]Settled

\* three invocations, the first two cancelled, the third served
LastInvocationServedWitness ==
  /\ Len(invocations) = 3
  /\ Len(delivered) = 1
  /\ Settled

(***************************************************************************)
(* Properties of the editable field (checked under SpecField)              *)
(***************************************************************************)
\* v lies in [min, max], for the bounds the validation object has
InRange(v, config) ==
  /\ config.min # null => Le(config.min[1], v)
  /\ config.max # null => Le(v, config.max[1])

\* min(max(v, min), max), for the bounds the validation object has
Clamped(v, config) ==
  LET raised == IF config.min = null THEN v ELSE MathMax(v, config.min[1])
  IN IF config.max = null THEN raised ELSE MathMin(raised, config.max[1])

\* C27 (an edit commits a value in range, a cancel commits nothing): saveEdit
\* applies validation.formatter, clamps the result into [min, max], leaves
\* edit mode and calls onSave exactly once, with the final value, so every
\* value onSave receives lies in [min, max]; cancelEdit puts value back to
\* initialValue, leaves edit mode and never calls onSave.
EditCommits ==
  [][/\ saveEdit =>
          /\ value' = Clamped(applyFormatter(validationConfig.formatter, value),
                              validationConfig)
          /\ saved' = Append(saved, value')
          /\ ~isEditing'
     /\ cancelEdit =>
          /\ value' = initialValue
          /\ saved' = saved
          /\ ~isEditing'
     /\ \A i \in DOMAIN saved' : InRange(saved'[i], validationConfig)]_vars

\* a text above the maximum was saved as the maximum, and a later edit was
\* cancelled before the parent passed the saved value back
EditCommitsWitness ==
  /\ ~isEditing
  /\ Len(saved) = 1
  /\ validationConfig.max # null
  /\ saved[1] = validationConfig.max[1]
  /\ value = initialValue
  /\ value # saved[1]

=============================================================================
